---- MODULE Spec2Model ----
(***************************************************************************)
(* Model of the diagram editor's canvas aggregate (DiagramCanvas), its     *)
(* entities (DiagramNode, DiagramConnector), the geometry helpers and the  *)
(* three pointer gestures of the host component (Home): node drag,         *)
(* endpoint drag and connection creation.                                  *)
(*                                                                         *)
(* A JavaScript Map is a sequence of [k, v] entries in insertion order     *)
(* with unique keys.  The number type is modelled by exact integers and    *)
(* exact fractions [num, den] in lowest terms.  null and undefined option  *)
(* values are the empty set, a present value p is {p}; a null id is the    *)
(* empty string (both are falsy under !x, and the host never passes an     *)
(* empty id).                                                              *)
(***************************************************************************)
EXTENDS Integers, Sequences, FiniteSets, TLC

VARIABLES
    nodes,                    \* DiagramCanvas.nodes: Map<string, DiagramNode>
    connectors,               \* DiagramCanvas.connectors: Map<string, DiagramConnector>
    selection,                \* DiagramCanvas.selection (selectedNodes, selectedConnectors)
    history,                  \* DiagramCanvas.history: list of {nodes, connectors} snapshots
    historyIndex,             \* DiagramCanvas.historyIndex (0-based, -1 when empty)
    settings,                 \* DiagramCanvas.settings.grid (snapToGrid)
    logHighlights,            \* DiagramCanvas.logHighlights: Map<string, LogHighlightStyle>
    logAnnotations,           \* DiagramCanvas.logAnnotations: Map<string, string>
    mounted,                  \* Home has run its set-up effect
    currentMode,              \* Home.currentMode: "graph" | "log"
    mousePosition,            \* Home.mousePosition (canvas space)
    dragState,                \* Home.dragState (node drag)
    endpointDragState,        \* useEndpointDrag state
    connectionCreationState,  \* useConnectionCreation state
    pointerDown,              \* the pointer's button is held down over the canvas
    now,                      \* the clock read by Date.now()
    ops,                      \* number of operations performed so far
    last                      \* the operation performed by the last step

canvasVars == <<nodes, connectors, selection, history, historyIndex, settings,
               logHighlights, logAnnotations>>
gestureVars == <<dragState, endpointDragState, connectionCreationState>>
hostVars == <<mounted, currentMode, mousePosition>>
vars == <<nodes, connectors, selection, history, historyIndex, settings,
          logHighlights, logAnnotations, mounted, currentMode, mousePosition,
          dragState, endpointDragState, connectionCreationState,
          pointerDown, now, ops, last>>

----------------------------------------------------------------------------
(* Bounds of the model *)

\* operations per behaviour
MaxOps == 6

\* largest value the clock reaches
MaxClock == 1

\* history cap used for exploration; DiagramCanvas.maxHistorySize defaults to 50
maxHistorySize == 2

----------------------------------------------------------------------------
(* Program constants *)

skirtPadding == 16

gridSize == 20

dragThreshold == 2

defaultWidth == 120

defaultHeight == 60

Null == ""

None == {}

Some(v) == {v}

TheValue(o) == CHOOSE v \in o : TRUE

Pos(x, y) == [x |-> x, y |-> y]

defaultNodeSize == [width |-> defaultWidth, height |-> defaultHeight]

----------------------------------------------------------------------------
(* Numbers *)

Abs(n) == IF n < 0 THEN -n ELSE n

Min(a, b) == IF a < b THEN a ELSE b

Max(a, b) == IF a > b THEN a ELSE b

RECURSIVE Gcd(_, _)
Gcd(a, b) == IF b = 0 THEN a ELSE Gcd(b, a % b)

\* the number n/d (d > 0) in lowest terms
Frac(n, d) == LET g == Gcd(Abs(n), d) IN [num |-> n \div g, den |-> d \div g]

Half == Frac(1, 2)

\* Math.max(0, Math.min(1, n / d))
Clamp01(n, d) == IF n <= 0 THEN Frac(0, 1) ELSE IF n >= d THEN Frac(1, 1) ELSE Frac(n, d)

\* Math.round(n / gridSize) * gridSize; Math.round rounds halves up
RoundToGrid(n) == ((2 * n + gridSize) \div (2 * gridSize)) * gridSize

\* size * offset, exact whenever offset was derived from a point on this size
Scale(size, f) == (size * f.num) \div f.den

----------------------------------------------------------------------------
(* Map<string, T> *)

MapKeys(m) == {m[i].k : i \in DOMAIN m}

MapHas(m, key) == key \in MapKeys(m)

MapIndex(m, key) == CHOOSE i \in DOMAIN m : m[i].k = key

MapGet(m, key) == m[MapIndex(m, key)].v

MapValues(m) == [i \in DOMAIN m |-> m[i].v]

MapSet(m, key, val) ==
    IF MapHas(m, key)
    THEN [m EXCEPT ![MapIndex(m, key)] = [k |-> key, v |-> val]]
    ELSE Append(m, [k |-> key, v |-> val])

MapDeleteTest(e, key) == e.k # key

MapDelete(m, key) == SelectSeq(m, LAMBDA e : MapDeleteTest(e, key))

----------------------------------------------------------------------------
(* Entities *)

ConnectionSides == {"top", "right", "bottom", "left"}

\* new DiagramNode(id, title, position, type, size)
DiagramNode(id, position, size) ==
    [id |-> id, position |-> position, size |-> size, selected |-> FALSE]

\* DiagramNode.clone(): a new node whose id is this.id + '_copy'
CloneNode(n) ==
    [DiagramNode(n.id \o "_copy", n.position, n.size) EXCEPT !.selected = n.selected]

\* a clone that is given the original's position object instead of a copy of it
nodeCloneSharesPosition(n) == {"position"}

\* the fields of the node DiagramNode.clone() makes that are the same object as the
\* original's field: none, position and size are spread into new objects
nodeCloneShares(n) == {}

\* DiagramNode.getCenter(); sizes are even, so the halves are exact
getCenter(n) ==
    Pos(n.position.x + n.size.width \div 2, n.position.y + n.size.height \div 2)

\* a ConnectionPoint literal {nodeId, side, offset}: absolutePosition is absent
ConnectionPoint(nodeId, side, offset) ==
    [nodeId |-> nodeId, side |-> side, offset |-> offset, absolutePosition |-> None]

\* new DiagramConnector(id, startNodeId, endNodeId, startSide, endSide, startOffset, endOffset)
DiagramConnector(id, startNodeId, endNodeId, startSide, endSide, startOffset, endOffset) ==
    [id |-> id,
     startPoint |-> ConnectionPoint(startNodeId, startSide, startOffset),
     endPoint |-> ConnectionPoint(endNodeId, endSide, endOffset),
     selected |-> FALSE]

\* DiagramConnector.updateStartPoint / updateEndPoint replace the whole point
updateStartPoint(c, nodeId, side, offset) ==
    [c EXCEPT !.startPoint = ConnectionPoint(nodeId, side, offset)]

updateEndPoint(c, nodeId, side, offset) ==
    [c EXCEPT !.endPoint = ConnectionPoint(nodeId, side, offset)]

isConnectedToNode(c, nodeId) ==
    c.startPoint.nodeId = nodeId \/ c.endPoint.nodeId = nodeId

\* DiagramConnector.clone(): id + '_copy', points rebuilt by the constructor
CloneConnector(c) ==
    [DiagramConnector(c.id \o "_copy", c.startPoint.nodeId, c.endPoint.nodeId,
                      c.startPoint.side, c.endPoint.side,
                      c.startPoint.offset, c.endPoint.offset)
        EXCEPT !.selected = c.selected]

----------------------------------------------------------------------------
(* Geometry: ConnectionUtils and the hit tests *)

calculateConnectionPoint(nodePosition, nodeSize, side, offset) ==
    CASE side = "top" ->
            Pos(nodePosition.x + Scale(nodeSize.width, offset), nodePosition.y)
      [] side = "right" ->
            Pos(nodePosition.x + nodeSize.width,
                nodePosition.y + Scale(nodeSize.height, offset))
      [] side = "bottom" ->
            Pos(nodePosition.x + Scale(nodeSize.width, offset),
                nodePosition.y + nodeSize.height)
      [] side = "left" ->
            Pos(nodePosition.x, nodePosition.y + Scale(nodeSize.height, offset))
      [] OTHER ->
            Pos(nodePosition.x + nodeSize.width \div 2,
                nodePosition.y + nodeSize.height \div 2)

\* getClosestSide measuring from the node's top left corner instead of its center
getClosestSideFromCorner(fromPosition, toNodePosition, toNodeSize) ==
    LET dx == fromPosition.x - toNodePosition.x
        dy == fromPosition.y - toNodePosition.y
    IN  IF Abs(dx) > Abs(dy) THEN (IF dx > 0 THEN "left" ELSE "right")
        ELSE (IF dy > 0 THEN "top" ELSE "bottom")

\* getClosestSide with the horizontal branch taken on a tie: absX >= absY
getClosestSideTieHorizontal(fromPosition, toNodePosition, toNodeSize) ==
    LET dx == fromPosition.x - (toNodePosition.x + toNodeSize.width \div 2)
        dy == fromPosition.y - (toNodePosition.y + toNodeSize.height \div 2)
    IN  IF Abs(dx) >= Abs(dy) THEN (IF dx > 0 THEN "left" ELSE "right")
        ELSE (IF dy > 0 THEN "top" ELSE "bottom")

getClosestSide(fromPosition, toNodePosition, toNodeSize) ==
    LET dx == fromPosition.x - (toNodePosition.x + toNodeSize.width \div 2)
        dy == fromPosition.y - (toNodePosition.y + toNodeSize.height \div 2)
    IN  IF Abs(dx) > Abs(dy)
        THEN (IF dx > 0 THEN "left" ELSE "right")
        ELSE (IF dy > 0 THEN "top" ELSE "bottom")

\* the padded-bounds test of getNodeAtPosition for one node
InSkirt(n, position) ==
    /\ position.x >= n.position.x - skirtPadding
    /\ position.x <= n.position.x - skirtPadding + n.size.width + skirtPadding * 2
    /\ position.y >= n.position.y - skirtPadding
    /\ position.y <= n.position.y - skirtPadding + n.size.height + skirtPadding * 2

\* dragUtils.getNodeAtPosition(nodes, position): the first node hit, or null
getNodeAtPosition(nodeList, position) ==
    LET hits == {i \in DOMAIN nodeList : InSkirt(nodeList[i], position)}
    IN  IF hits = {} THEN None
        ELSE Some(nodeList[CHOOSE i \in hits : \A j \in hits : i <= j])

\* the quadrant mapping: calculateConnectionPoint of useEndpointDrag and
\* calculateConnectionPointFromPosition of useConnectionCreation (same text)
\* the quadrant mapping with the offset of a horizontal side taken along the width and
\* that of a vertical side along the height
quadrantMappingSwappedOffsets(node, dropPosition) ==
    LET relativeX == dropPosition.x - (node.position.x + node.size.width \div 2)
        relativeY == dropPosition.y - (node.position.y + node.size.height \div 2)
        alongHeight == Clamp01(dropPosition.y - node.position.y, node.size.height)
        alongWidth == Clamp01(dropPosition.x - node.position.x, node.size.width)
    IN  IF Abs(relativeX) > Abs(relativeY)
        THEN [side |-> IF relativeX > 0 THEN "right" ELSE "left", offset |-> alongWidth]
        ELSE [side |-> IF relativeY > 0 THEN "bottom" ELSE "top", offset |-> alongHeight]

quadrantMapping(node, dropPosition) ==
    LET relativeX == dropPosition.x - (node.position.x + node.size.width \div 2)
        relativeY == dropPosition.y - (node.position.y + node.size.height \div 2)
        alongHeight == Clamp01(dropPosition.y - node.position.y, node.size.height)
        alongWidth == Clamp01(dropPosition.x - node.position.x, node.size.width)
    IN  IF Abs(relativeX) > Abs(relativeY)
        THEN [side |-> IF relativeX > 0 THEN "right" ELSE "left", offset |-> alongHeight]
        ELSE [side |-> IF relativeY > 0 THEN "bottom" ELSE "top", offset |-> alongWidth]

----------------------------------------------------------------------------
(* DiagramCanvas: every method is an operator from a canvas value (the      *)
(* object's fields) to the canvas value after the call, with the returned   *)
(* value where the method returns one.                                      *)

Canvas ==
    [nodes |-> nodes, connectors |-> connectors, selection |-> selection,
     history |-> history, historyIndex |-> historyIndex, settings |-> settings,
     logHighlights |-> logHighlights, logAnnotations |-> logAnnotations]

\* the fields after new DiagramCanvas(width, height)
NewCanvas ==
    [nodes |-> <<>>, connectors |-> <<>>,
     selection |-> [selectedNodes |-> {}, selectedConnectors |-> {}],
     history |-> <<>>, historyIndex |-> -1,
     settings |-> [snapToGrid |-> TRUE],
     logHighlights |-> <<>>, logAnnotations |-> <<>>]

Returned(cv, ret) == [canvas |-> cv, ret |-> ret]

CloneNodes(m) == [i \in DOMAIN m |-> [k |-> m[i].k, v |-> CloneNode(m[i].v)]]

CloneConnectors(m) == [i \in DOMAIN m |-> [k |-> m[i].k, v |-> CloneConnector(m[i].v)]]

\* the {nodes, connectors} pair saveToHistory pushes
Snapshot(cv) ==
    [nodes |-> CloneNodes(cv.nodes), connectors |-> CloneConnectors(cv.connectors)]

\* saveToHistory that drops the oldest snapshot and leaves the index where it is
saveToHistoryNoDecrement(cv) ==
    LET kept == SubSeq(cv.history, 1, cv.historyIndex + 1)
        pushed == Append(kept, Snapshot(cv))
        index == cv.historyIndex + 1
    IN  IF Len(pushed) > maxHistorySize
        THEN [cv EXCEPT !.history = Tail(pushed), !.historyIndex = index]
        ELSE [cv EXCEPT !.history = pushed, !.historyIndex = index]

saveToHistory(cv) ==
    LET kept == SubSeq(cv.history, 1, cv.historyIndex + 1)
        pushed == Append(kept, Snapshot(cv))
        index == cv.historyIndex + 1
    IN  IF Len(pushed) > maxHistorySize
        THEN [cv EXCEPT !.history = Tail(pushed), !.historyIndex = index - 1]
        ELSE [cv EXCEPT !.history = pushed, !.historyIndex = index]

canUndo(cv) == cv.historyIndex > 0

canRedo(cv) == cv.historyIndex < Len(cv.history) - 1

snapToGrid(cv, position) ==
    IF ~cv.settings.snapToGrid THEN position
    ELSE Pos(RoundToGrid(position.x), RoundToGrid(position.y))

addNode(cv, node) ==
    saveToHistory([cv EXCEPT !.nodes = MapSet(@, node.id, node)])

\* the ids removeNode collects: the id FIELDS of the attached connectors
connectorsToRemove(cv, nodeId) ==
    {cv.connectors[i].v.id :
        i \in {j \in DOMAIN cv.connectors : isConnectedToNode(cv.connectors[j].v, nodeId)}}

NotIn(e, keys) == e.k \notin keys

removeNode(cv, nodeId) ==
    IF ~MapHas(cv.nodes, nodeId) THEN Returned(cv, FALSE)
    ELSE LET gone == connectorsToRemove(cv, nodeId)
         IN  Returned(saveToHistory(
                 [cv EXCEPT !.connectors = SelectSeq(@, LAMBDA e : NotIn(e, gone)),
                            !.nodes = MapDelete(@, nodeId),
                            !.selection.selectedNodes = @ \ {nodeId}]), TRUE)

\* the point with its absolutePosition recomputed from node, when it is on nodeId
Reposition(point, nodeId, node) ==
    IF point.nodeId = nodeId
    THEN [point EXCEPT !.absolutePosition =
             Some(calculateConnectionPoint(node.position, node.size, point.side, point.offset))]
    ELSE point

updateConnectorPositions(cv, nodeId) ==
    IF ~MapHas(cv.nodes, nodeId) THEN cv
    ELSE LET node == MapGet(cv.nodes, nodeId)
         IN  [cv EXCEPT !.connectors =
                [i \in DOMAIN @ |->
                    [@[i] EXCEPT !.v.startPoint = Reposition(@, nodeId, node),
                                 !.v.endPoint = Reposition(@, nodeId, node)]]]

\* moveNode without the call of updateConnectorPositions
moveNodeNoRecompute(cv, nodeId, newPosition) ==
    IF ~MapHas(cv.nodes, nodeId) THEN Returned(cv, FALSE)
    ELSE LET i == MapIndex(cv.nodes, nodeId)
         IN  Returned([cv EXCEPT !.nodes[i].v.position = snapToGrid(cv, newPosition)], TRUE)

\* moveNode that pushes a snapshot after the move
moveNodePushesHistory(cv, nodeId, newPosition) ==
    IF ~MapHas(cv.nodes, nodeId) THEN Returned(cv, FALSE)
    ELSE LET i == MapIndex(cv.nodes, nodeId)
             moved == [cv EXCEPT !.nodes[i].v.position = snapToGrid(cv, newPosition)]
         IN  Returned(saveToHistory(updateConnectorPositions(moved, nodeId)), TRUE)

moveNode(cv, nodeId, newPosition) ==
    IF ~MapHas(cv.nodes, nodeId) THEN Returned(cv, FALSE)
    ELSE LET i == MapIndex(cv.nodes, nodeId)
             moved == [cv EXCEPT !.nodes[i].v.position = snapToGrid(cv, newPosition)]
         IN  Returned(updateConnectorPositions(moved, nodeId), TRUE)

RenameEndpoint(point, oldId, newId) ==
    IF point.nodeId = oldId THEN [point EXCEPT !.nodeId = newId] ELSE point

RenameIn(set, oldId, newId) ==
    IF oldId \in set THEN (set \ {oldId}) \cup {newId} ELSE set

\* updateNodeId with the test for a node already stored under newId left out
updateNodeIdOverwrites(cv, oldId, newId) ==
    IF ~MapHas(cv.nodes, oldId) THEN Returned(cv, FALSE)
    ELSE LET node == [MapGet(cv.nodes, oldId) EXCEPT !.id = newId]
         IN  Returned(saveToHistory(
                 [cv EXCEPT !.nodes = MapSet(MapDelete(@, oldId), newId, node),
                            !.connectors =
                                [i \in DOMAIN @ |->
                                    [@[i] EXCEPT
                                        !.v.startPoint = RenameEndpoint(@, oldId, newId),
                                        !.v.endPoint = RenameEndpoint(@, oldId, newId)]],
                            !.selection.selectedNodes = RenameIn(@, oldId, newId)]), TRUE)

\* updateNodeId that rekeys the node but leaves the connector endpoints as they were
updateNodeIdKeepsEndpoints(cv, oldId, newId) ==
    IF ~MapHas(cv.nodes, oldId) \/ MapHas(cv.nodes, newId) THEN Returned(cv, FALSE)
    ELSE LET node == [MapGet(cv.nodes, oldId) EXCEPT !.id = newId]
         IN  Returned(saveToHistory(
                 [cv EXCEPT !.nodes = MapSet(MapDelete(@, oldId), newId, node),
                            !.selection.selectedNodes = RenameIn(@, oldId, newId)]), TRUE)

updateNodeId(cv, oldId, newId) ==
    IF ~MapHas(cv.nodes, oldId) \/ MapHas(cv.nodes, newId) THEN Returned(cv, FALSE)
    ELSE LET node == [MapGet(cv.nodes, oldId) EXCEPT !.id = newId]
         IN  Returned(saveToHistory(
                 [cv EXCEPT !.nodes = MapSet(MapDelete(@, oldId), newId, node),
                            !.connectors =
                                [i \in DOMAIN @ |->
                                    [@[i] EXCEPT
                                        !.v.startPoint = RenameEndpoint(@, oldId, newId),
                                        !.v.endPoint = RenameEndpoint(@, oldId, newId)]],
                            !.selection.selectedNodes = RenameIn(@, oldId, newId)]), TRUE)

addConnector(cv, connector) ==
    saveToHistory([cv EXCEPT !.connectors = MapSet(@, connector.id, connector)])

\* updateConnectorId that leaves logHighlights keyed as it was
updateConnectorIdKeepsHighlights(cv, oldId, newId) ==
    IF ~MapHas(cv.connectors, oldId) \/ MapHas(cv.connectors, newId) THEN Returned(cv, FALSE)
    ELSE LET connector == [MapGet(cv.connectors, oldId) EXCEPT !.id = newId]
         IN  Returned(saveToHistory(
                 [cv EXCEPT !.connectors = MapSet(MapDelete(@, oldId), newId, connector),
                            !.selection.selectedConnectors = RenameIn(@, oldId, newId)]),
                      TRUE)

updateConnectorId(cv, oldId, newId) ==
    IF ~MapHas(cv.connectors, oldId) \/ MapHas(cv.connectors, newId) THEN Returned(cv, FALSE)
    ELSE LET connector == [MapGet(cv.connectors, oldId) EXCEPT !.id = newId]
         IN  Returned(saveToHistory(
                 [cv EXCEPT !.connectors = MapSet(MapDelete(@, oldId), newId, connector),
                            !.selection.selectedConnectors = RenameIn(@, oldId, newId),
                            !.logHighlights =
                                IF MapHas(@, oldId)
                                THEN MapSet(MapDelete(@, oldId), newId, MapGet(@, oldId))
                                ELSE @]), TRUE)

\* removeConnector with the delete left out
removeConnectorKeepsEntry(cv, connectorId) ==
    IF ~MapHas(cv.connectors, connectorId) THEN Returned(cv, FALSE)
    ELSE Returned(saveToHistory(
             [cv EXCEPT !.selection.selectedConnectors = @ \ {connectorId}]), TRUE)

removeConnector(cv, connectorId) ==
    IF ~MapHas(cv.connectors, connectorId) THEN Returned(cv, FALSE)
    ELSE Returned(saveToHistory(
             [cv EXCEPT !.connectors = MapDelete(@, connectorId),
                        !.selection.selectedConnectors = @ \ {connectorId}]), TRUE)

\* `connector_${Date.now()}`
connectorIdAt(t) == "connector_" \o ToString(t)

\* startSide / endSide are options: an omitted side is inferred by getClosestSide.
\* Returns the id of the created connector (the caller's reference to it), or Null.
createConnector(cv, startNodeId, endNodeId, startSide, endSide, t) ==
    IF ~MapHas(cv.nodes, startNodeId) \/ ~MapHas(cv.nodes, endNodeId)
    THEN Returned(cv, Null)
    ELSE LET startNode == MapGet(cv.nodes, startNodeId)
             endNode == MapGet(cv.nodes, endNodeId)
             autoStartSide ==
                 IF startSide # None THEN TheValue(startSide)
                 ELSE getClosestSide(getCenter(endNode), startNode.position, startNode.size)
             autoEndSide ==
                 IF endSide # None THEN TheValue(endSide)
                 ELSE getClosestSide(getCenter(startNode), endNode.position, endNode.size)
             connector == DiagramConnector(connectorIdAt(t), startNodeId, endNodeId,
                                           autoStartSide, autoEndSide, Half, Half)
         IN  Returned(addConnector(cv, connector), connector.id)

\* node.deselect() / connector.deselect() for every selected id still in its map
DeselectAll(m, ids) ==
    [i \in DOMAIN m |->
        IF m[i].k \in ids THEN [m[i] EXCEPT !.v.selected = FALSE] ELSE m[i]]

clearSelection(cv) ==
    [cv EXCEPT !.nodes = DeselectAll(@, cv.selection.selectedNodes),
               !.connectors = DeselectAll(@, cv.selection.selectedConnectors),
               !.selection.selectedNodes = {},
               !.selection.selectedConnectors = {}]

selectNode(cv, nodeId, multiSelect) ==
    LET c1 == IF multiSelect THEN cv ELSE clearSelection(cv)
    IN  IF ~MapHas(c1.nodes, nodeId) THEN c1
        ELSE [c1 EXCEPT !.selection.selectedNodes = @ \cup {nodeId},
                        !.nodes[MapIndex(c1.nodes, nodeId)].v.selected = TRUE]

selectConnector(cv, connectorId, multiSelect) ==
    LET c1 == IF multiSelect THEN cv ELSE clearSelection(cv)
    IN  IF ~MapHas(c1.connectors, connectorId) THEN c1
        ELSE [c1 EXCEPT !.selection.selectedConnectors = @ \cup {connectorId},
                        !.connectors[MapIndex(c1.connectors, connectorId)].v.selected = TRUE]

deselectNode(cv, nodeId) ==
    IF ~MapHas(cv.nodes, nodeId) THEN cv
    ELSE [cv EXCEPT !.selection.selectedNodes = @ \ {nodeId},
                    !.nodes[MapIndex(cv.nodes, nodeId)].v.selected = FALSE]

deselectConnector(cv, connectorId) ==
    IF ~MapHas(cv.connectors, connectorId) THEN cv
    ELSE [cv EXCEPT !.selection.selectedConnectors = @ \ {connectorId},
                    !.connectors[MapIndex(cv.connectors, connectorId)].v.selected = FALSE]

getSelectedNodes(cv) ==
    {MapGet(cv.nodes, id) : id \in {i \in cv.selection.selectedNodes : MapHas(cv.nodes, i)}}

getSelectedConnectors(cv) ==
    {MapGet(cv.connectors, id) :
        id \in {i \in cv.selection.selectedConnectors : MapHas(cv.connectors, i)}}

\* the live maps rebuilt from the snapshot at historyIndex, then clearSelection()
Restore(cv) ==
    LET state == cv.history[cv.historyIndex + 1]
    IN  clearSelection([cv EXCEPT !.nodes = CloneNodes(state.nodes),
                                  !.connectors = CloneConnectors(state.connectors)])

\* a holder of a node object that undo() or redo() installed writes the x and y of its
\* position in place: the live node changes, and so does the node of the snapshot it was
\* cloned from where the clone has the snapshot's object
mutateInstalled(cv, nodeId, position) ==
    IF ~MapHas(cv.nodes, nodeId) THEN cv
    ELSE LET i == MapIndex(cv.nodes, nodeId)
             live == [cv EXCEPT !.nodes[i].v.position = position]
             state == cv.history[cv.historyIndex + 1]
         IN  IF "position" \in nodeCloneShares(cv.nodes[i].v) /\ MapHas(state.nodes, nodeId)
             THEN [live EXCEPT !.history[cv.historyIndex + 1]
                                  .nodes[MapIndex(state.nodes, nodeId)].v.position = position]
             ELSE live

\* undo that clears the selection before it looks at the history
undoClearsSelectionFirst(cv) ==
    IF ~canUndo(cv) THEN Returned(clearSelection(cv), FALSE)
    ELSE Returned(Restore([cv EXCEPT !.historyIndex = @ - 1]), TRUE)

undo(cv) ==
    IF ~canUndo(cv) THEN Returned(cv, FALSE)
    ELSE Returned(Restore([cv EXCEPT !.historyIndex = @ - 1]), TRUE)

\* redo that moves the index and leaves the live graph as it is
redoWithoutRestore(cv) ==
    IF ~canRedo(cv) THEN Returned(cv, FALSE)
    ELSE Returned(clearSelection([cv EXCEPT !.historyIndex = @ + 1]), TRUE)

redo(cv) ==
    IF ~canRedo(cv) THEN Returned(cv, FALSE)
    ELSE Returned(Restore([cv EXCEPT !.historyIndex = @ + 1]), TRUE)

\* a LogAction: id is the list of target ids (a single string id is the one-element
\* list processLogAction makes of it), style and annotation are options
LogAction(ids, action, style, annotation) ==
    [id |-> ids, action |-> action, style |-> style, annotation |-> annotation]

\* the default colour processLogAction gives a style
defaultColor(style) ==
    IF style = Some("success") THEN "#22c55e"
    ELSE IF style = Some("error") THEN "#ef4444"
    ELSE IF style = Some("warning") THEN "#f59e0b"
    ELSE IF style = Some("active") THEN "#3b82f6"
    ELSE IF style = Some("context") THEN "#6b7280"
    ELSE IF style = Some("destination") THEN "#8b5cf6"
    ELSE IF style = Some("path") THEN "#06b6d4"
    ELSE "#3b82f6"

processLogAction(action) ==
    [targetIds |-> action.id,
     highlightStyle |-> [type |-> action.action,
                         style |-> action.style,
                         color |-> defaultColor(action.style),
                         animation |-> action.action \in {"pulse", "trace"}]]

clearLogHighlights(cv) == [cv EXCEPT !.logHighlights = <<>>]

clearLogAnnotations(cv) == [cv EXCEPT !.logAnnotations = <<>>]

\* applyLogActions that records the annotation text of every kind of action
RECURSIVE applyToTargetsAnyKind(_, _, _, _)
applyToTargetsAnyKind(cv, action, processedAction, i) ==
    IF i > Len(processedAction.targetIds) THEN cv
    ELSE LET id == processedAction.targetIds[i]
             c1 == [cv EXCEPT !.logHighlights =
                                  MapSet(@, id, processedAction.highlightStyle)]
             c2 == IF action.annotation # None /\ TheValue(action.annotation) # ""
                   THEN [c1 EXCEPT !.logAnnotations =
                                       MapSet(@, id, TheValue(action.annotation))]
                   ELSE c1
         IN  applyToTargetsAnyKind(c2, action, processedAction, i + 1)

\* the body of targetIds.forEach for the ids from position i on
RECURSIVE applyToTargets(_, _, _, _)
applyToTargets(cv, action, processedAction, i) ==
    IF i > Len(processedAction.targetIds) THEN cv
    ELSE LET id == processedAction.targetIds[i]
             c1 == [cv EXCEPT !.logHighlights =
                                  MapSet(@, id, processedAction.highlightStyle)]
             c2 == IF action.action = "annotate" /\ action.annotation # None
                       /\ TheValue(action.annotation) # ""
                   THEN [c1 EXCEPT !.logAnnotations =
                                       MapSet(@, id, TheValue(action.annotation))]
                   ELSE c1
         IN  applyToTargets(c2, action, processedAction, i + 1)

\* the body of actions.forEach for the actions from position i on
RECURSIVE applyEachAction(_, _, _)
applyEachAction(cv, actions, i) ==
    IF i > Len(actions) THEN cv
    ELSE applyEachAction(
             applyToTargets(cv, actions[i], processLogAction(actions[i]), 1), actions, i + 1)

\* applyLogActions without the two clears at its start
applyLogActionsKeepsEarlier(cv, actions) == applyEachAction(cv, actions, 1)

applyLogActions(cv, actions) ==
    applyEachAction(clearLogAnnotations(clearLogHighlights(cv)), actions, 1)

\* toJSON(): the entries of the two maps as [id, entity] pairs, and the settings
toJSON(cv) ==
    [nodes |-> [i \in DOMAIN cv.nodes |-> <<cv.nodes[i].k, cv.nodes[i].v>>],
     connectors |-> [i \in DOMAIN cv.connectors |-> <<cv.connectors[i].k, cv.connectors[i].v>>],
     settings |-> cv.settings]

\* Object.assign(target, source): every own field of source written onto target
ObjectAssign(target, source) ==
    [f \in DOMAIN target \cup DOMAIN source |->
        IF f \in DOMAIN source THEN source[f] ELSE target[f]]

\* the node fromJSON builds from an entry's data
NodeFromData(nodeData) ==
    ObjectAssign(DiagramNode(nodeData.id, nodeData.position, nodeData.size), nodeData)

\* the connector fromJSON builds from an entry's data
ConnectorFromData(connectorData) ==
    ObjectAssign(DiagramConnector(connectorData.id,
                                  connectorData.startPoint.nodeId,
                                  connectorData.endPoint.nodeId,
                                  connectorData.startPoint.side,
                                  connectorData.endPoint.side,
                                  connectorData.startPoint.offset,
                                  connectorData.endPoint.offset), connectorData)

\* data.nodes.forEach that stores each node under the id field of its data
RECURSIVE loadNodesByIdField(_, _, _)
loadNodesByIdField(m, entries, i) ==
    IF i > Len(entries) THEN m
    ELSE loadNodesByIdField(MapSet(m, entries[i][2].id, NodeFromData(entries[i][2])),
                            entries, i + 1)

\* data.nodes.forEach from entry i on: this.nodes.set(id, node)
RECURSIVE loadNodes(_, _, _)
loadNodes(m, entries, i) ==
    IF i > Len(entries) THEN m
    ELSE loadNodes(MapSet(m, entries[i][1], NodeFromData(entries[i][2])), entries, i + 1)

\* data.connectors.forEach from entry i on: this.connectors.set(id, connector)
RECURSIVE loadConnectors(_, _, _)
loadConnectors(m, entries, i) ==
    IF i > Len(entries) THEN m
    ELSE loadConnectors(MapSet(m, entries[i][1], ConnectorFromData(entries[i][2])),
                        entries, i + 1)

\* updateSettings(newSettings): { ...this.settings, ...newSettings }
updateSettings(cv, newSettings) == [cv EXCEPT !.settings = ObjectAssign(@, newSettings)]

fromJSON(cv, data) ==
    saveToHistory(clearSelection(
        [cv EXCEPT !.nodes = loadNodes(<<>>, data.nodes, 1),
                   !.connectors = loadConnectors(<<>>, data.connectors, 1),
                   !.settings = ObjectAssign(@, data.settings)]))

\* what a caller holds of an object it reached through an accessor's result: the
\* canvas's own object, named by the path of canvas fields that leads to it (a write
\* through it is a write to the canvas), or a copy of its own (the empty path)
Shared(path) == [path |-> path]

Copied == [path |-> <<>>]

\* Array.from(this.nodes.values()): a new array holding the canvas's own node objects
getAllNodes(cv) == [i \in DOMAIN cv.nodes |-> Shared(<<"nodes", cv.nodes[i].k>>)]

\* Array.from(this.connectors.values()): a new array of the canvas's own connectors
getAllConnectors(cv) ==
    [i \in DOMAIN cv.connectors |-> Shared(<<"connectors", cv.connectors[i].k>>)]

\* { ...this.settings }: a new object whose grid field is the canvas's own grid object
getSettings(cv) == <<Shared(<<"settings", "grid">>)>>

\* new Map(this.logHighlights): a new map holding the canvas's own style objects
getLogHighlights(cv) ==
    [i \in DOMAIN cv.logHighlights |-> Shared(<<"logHighlights", cv.logHighlights[i].k>>)]

\* new Map(this.logAnnotations): a new map of strings
getLogAnnotations(cv) == [i \in DOMAIN cv.logAnnotations |-> Copied]

\* everything reached through the value an accessor returned: the returned collection
\* or object itself, which is new, and the objects in it
Reached(cv, accessor) ==
    LET got == CASE accessor = "getAllNodes" -> getAllNodes(cv)
                 [] accessor = "getAllConnectors" -> getAllConnectors(cv)
                 [] accessor = "getSettings" -> getSettings(cv)
                 [] accessor = "getLogHighlights" -> getLogHighlights(cv)
                 [] OTHER -> getLogAnnotations(cv)
    IN  {Copied} \cup {got[i] : i \in DOMAIN got}

\* the caller's assignment target.field = value; settings holds the grid's snapToGrid
WriteField(cv, target, field, value) ==
    IF target.path = <<>> THEN cv
    ELSE IF target.path[1] = "nodes"
    THEN [cv EXCEPT !.nodes[MapIndex(cv.nodes, target.path[2])].v[field] = value]
    ELSE IF target.path[1] = "connectors"
    THEN [cv EXCEPT !.connectors[MapIndex(cv.connectors, target.path[2])].v[field] = value]
    ELSE IF target.path[1] = "logHighlights"
    THEN [cv EXCEPT !.logHighlights[MapIndex(cv.logHighlights, target.path[2])].v[field] =
                        value]
    ELSE [cv EXCEPT !.settings[field] = value]

----------------------------------------------------------------------------
(* The host: Home (GridComponent.tsx) with useEndpointDrag and              *)
(* useConnectionCreation.  Pointer coordinates are canvas-space (the canvas *)
(* element sits at the client origin).  The `nodes` array the hooks close   *)
(* over is canvas.getAllNodes() of the latest render; the host re-renders   *)
(* after every change (its handlers set state or call refresh(), as         *)
(* handleAddNode does after canvas.addNode), so a handler sees the live     *)
(* nodes in map order.                                                      *)

IdleDragState ==
    [isDragging |-> FALSE, nodeId |-> Null, startMousePos |-> Pos(0, 0),
     startNodePos |-> Pos(0, 0), wasAlreadySelected |-> FALSE, hasDraggedNode |-> FALSE]

IdleEndpointDragState ==
    [isDragging |-> FALSE, connectorId |-> Null, endpointType |-> Null,
     startMousePos |-> Pos(0, 0), originalConnectionPoint |-> None]

IdleConnectionCreationState ==
    [isCreating |-> FALSE, startNodeId |-> Null, startCanvasPos |-> Pos(0, 0)]

\* handleEndpointDrop: the canvas and the hook state after the drop, and what it did
handleEndpointDrop(cv, st, mouse) ==
    IF st.connectorId = Null \/ st.endpointType = Null
    THEN [canvas |-> cv, state |-> st, outcome |-> "returned"]
    ELSE IF ~MapHas(cv.connectors, st.connectorId)
    THEN [canvas |-> cv, state |-> st, outcome |-> "returned"]
    ELSE LET targetNode == getNodeAtPosition(MapValues(cv.nodes), mouse)
         IN  IF targetNode # None
             THEN LET target == TheValue(targetNode)
                      newConnectionPoint == quadrantMapping(target, mouse)
                      i == MapIndex(cv.connectors, st.connectorId)
                      updated ==
                          IF st.endpointType = "start"
                          THEN [cv EXCEPT !.connectors[i].v =
                                   updateStartPoint(@, target.id, newConnectionPoint.side,
                                                    newConnectionPoint.offset)]
                          ELSE [cv EXCEPT !.connectors[i].v =
                                   updateEndPoint(@, target.id, newConnectionPoint.side,
                                                  newConnectionPoint.offset)]
                  IN  [canvas |-> moveNode(updated, target.id, target.position).canvas,
                       state |-> IdleEndpointDragState, outcome |-> "reattached"]
             ELSE [canvas |-> removeConnector(cv, st.connectorId).canvas,
                   state |-> IdleEndpointDragState, outcome |-> "deleted"]

\* the connector under key id with both points overwritten, then the two recomputes
OverwritePoints(cv, id, startNode, startPoint, target, endPoint) ==
    LET i == MapIndex(cv.connectors, id)
        c1 == [cv EXCEPT !.connectors[i].v =
                  updateEndPoint(
                      updateStartPoint(@, startNode.id, startPoint.side, startPoint.offset),
                      target.id, endPoint.side, endPoint.offset)]
        c2 == moveNode(c1, startNode.id, startNode.position).canvas
    IN  moveNode(c2, target.id, target.position).canvas

\* the target test with the comparison against the source left out
isDistinctTargetAnyNode(targetNode, st) == targetNode # None

\* targetNode && targetNode.id !== connectionCreationState.startNodeId
isDistinctTarget(targetNode, st) ==
    targetNode # None /\ TheValue(targetNode).id # st.startNodeId

\* handleConnectionDrop: the canvas and the hook state after the drop, and what it did
handleConnectionDrop(cv, st, mouse, t) ==
    IF st.startNodeId = Null
    THEN [canvas |-> cv, state |-> st, outcome |-> "returned"]
    ELSE LET targetNode == getNodeAtPosition(MapValues(cv.nodes), mouse)
         IN  IF isDistinctTarget(targetNode, st)
             THEN IF ~MapHas(cv.nodes, st.startNodeId)
                  THEN [canvas |-> cv, state |-> st, outcome |-> "returned"]
                  ELSE LET target == TheValue(targetNode)
                           startNode == MapGet(cv.nodes, st.startNodeId)
                           startConnectionPoint == quadrantMapping(startNode, st.startCanvasPos)
                           endConnectionPoint == quadrantMapping(target, mouse)
                           made == createConnector(cv, st.startNodeId, target.id,
                                                   Some(startConnectionPoint.side),
                                                   Some(endConnectionPoint.side), t)
                       IN  IF made.ret # Null
                           THEN [canvas |-> OverwritePoints(made.canvas, made.ret, startNode,
                                                startConnectionPoint, target, endConnectionPoint),
                                 state |-> IdleConnectionCreationState, outcome |-> "created"]
                           ELSE [canvas |-> made.canvas,
                                 state |-> IdleConnectionCreationState, outcome |-> "refused"]
             ELSE [canvas |-> cv, state |-> IdleConnectionCreationState,
                   outcome |-> "noTarget"]

----------------------------------------------------------------------------
(* Inputs *)

NodeIds == {"test-node-1", "test-node-2"}

\* ids a node is renamed to: one in use and a fresh one
NewNodeIds == {"test-node-2", "node-3"}

\* ids a connector is renamed to: a fresh one and one createConnector makes
NewConnectorIds == {"test-connector-1", connectorIdAt(0)}

\* where handleAddNode puts a new node
AddPosition == Pos(80, 100)

\* pointer positions: inside test-node-1 (and inside a node at AddPosition), in the
\* skirt corner of test-node-1, inside test-node-2, and over empty canvas
MousePositions == {Pos(110, 120), Pos(90, 90), Pos(400, 250), Pos(500, 400)}

MovePositions == {Pos(250, 130)}

Clock == 0 .. MaxClock

\* the action lists of log entries: one action on a node, one on a connector and a node
\* together, one pulse without annotation, and an annotate action without text beside a
\* highlight that carries a text
LogActionLists ==
    {<<LogAction(<<"test-node-1">>, "annotate", None, Some("Processing"))>>,
     <<LogAction(<<connectorIdAt(0), "test-node-1">>, "annotate", Some("active"),
                 Some("Sending STOP"))>>,
     <<LogAction(<<"test-node-2">>, "pulse", Some("error"), None),
       LogAction(<<connectorIdAt(0)>>, "highlight", Some("path"), None)>>,
     <<LogAction(<<"test-node-2">>, "annotate", None, None),
       LogAction(<<"test-node-1">>, "highlight", Some("success"), Some("ignored"))>>}

\* pointer positions of a gesture that starts on test-node-1: the press position, one
\* within the drag threshold of it, and one over empty canvas
PointerPositions == {Pos(110, 120), Pos(111, 122), Pos(500, 400)}

\* the writes a caller makes through what an accessor returned
Writes ==
    {[accessor |-> "getAllNodes", field |-> "position", value |-> Pos(20, 40)],
     [accessor |-> "getAllConnectors", field |-> "selected", value |-> TRUE],
     [accessor |-> "getSettings", field |-> "snapToGrid", value |-> FALSE],
     [accessor |-> "getLogHighlights", field |-> "color", value |-> "#000000"],
     [accessor |-> "getLogAnnotations", field |-> "text", value |-> "changed"]}

\* an export of another canvas: one node, selected there
Exports ==
    {toJSON(selectNode(addNode(NewCanvas, DiagramNode("node-3", AddPosition, defaultNodeSize)),
                       "node-3", FALSE))}

\* where nodes are put to compare their sides: the two positions of the host's test
\* nodes and one on the diagonal of the first
NodePositions == {Pos(100, 100), Pos(300, 200), Pos(200, 200)}

\* reference points and node positions getClosestSide is asked about, and the vectors
\* both are translated by
ReferencePoints == {Pos(x, y) : x \in {0, 150, 400}, y \in {0, 140, 400}}

ReferenceNodePositions == {Pos(100, 100), Pos(90, 110)}

Translations == {Pos(0, 0), Pos(35, -20), Pos(-100, 300)}

\* a node position between the grid's lines, under the pointer position (500, 400)
OffGridPosition == Pos(430, 345)

\* the nodes whose connection points are mapped back: wide, tall, square and tiny; widths
\* and heights are even, so that the midpoints are whole numbers
MappedNodePositions == {Pos(100, 100), Pos(-30, 15)}

MappedNodeSizes ==
    {[width |-> 120, height |-> 60], [width |-> 60, height |-> 120],
     [width |-> 40, height |-> 40], [width |-> 2, height |-> 2]}

Sides == {"top", "right", "bottom", "left"}

MappedOffsets == {Half, Frac(0, 1), Frac(1, 1)}

\* what LogViewer hands to the host: null, an entry without unblind actions, an entry
\* with an empty action list, and entries with actions
LogEntries ==
    {None, Some([actions |-> None]), Some([actions |-> Some(<<>>)])}
        \cup {Some([actions |-> Some(actions)]) : actions \in LogActionLists}

----------------------------------------------------------------------------
(* Steps *)

Install(cv) ==
    /\ nodes' = cv.nodes
    /\ connectors' = cv.connectors
    /\ selection' = cv.selection
    /\ history' = cv.history
    /\ historyIndex' = cv.historyIndex
    /\ settings' = cv.settings
    /\ logHighlights' = cv.logHighlights
    /\ logAnnotations' = cv.logAnnotations

\* one more operation, recorded in last; evicted: the history was full with the index
\* at its end and the list changed, so a push dropped the oldest snapshot
Did(op, arg, ret) ==
    /\ ops < MaxOps
    /\ ops' = ops + 1
    /\ last' = [op |-> op, arg |-> arg, ret |-> ret,
                evicted |-> (historyIndex = maxHistorySize - 1 /\ history' # history)]

Init ==
    /\ nodes = NewCanvas.nodes
    /\ connectors = NewCanvas.connectors
    /\ selection = NewCanvas.selection
    /\ history = NewCanvas.history
    /\ historyIndex = NewCanvas.historyIndex
    /\ settings = NewCanvas.settings
    /\ logHighlights = NewCanvas.logHighlights
    /\ logAnnotations = NewCanvas.logAnnotations
    /\ mounted = FALSE
    /\ currentMode = "log"
    /\ mousePosition = Pos(0, 0)
    /\ dragState = IdleDragState
    /\ endpointDragState = IdleEndpointDragState
    /\ connectionCreationState = IdleConnectionCreationState
    /\ pointerDown = FALSE
    /\ now = 0
    /\ ops = 0
    /\ last = [op |-> "new", arg |-> <<>>, ret |-> <<>>, evicted |-> FALSE]

\* Home's set-up effect: when the canvas has no nodes, two test nodes and two test
\* connectors are added and the endpoint positions computed
SetUp(cv) ==
    IF Len(cv.nodes) # 0 THEN cv
    ELSE LET testNode1 == DiagramNode("test-node-1", Pos(100, 100), defaultNodeSize)
             testNode2 == DiagramNode("test-node-2", Pos(300, 200), defaultNodeSize)
             testConnector1 == DiagramConnector("test-connector-1", "test-node-1",
                                   "test-node-2", "right", "left", Half, Half)
             testConnector2 == DiagramConnector("test-connector-2", "test-node-2",
                                   "test-node-1", "top", "bottom", Half, Half)
             c1 == addNode(cv, testNode1)
             c2 == addNode(c1, testNode2)
             c3 == addConnector(c2, testConnector1)
             c4 == addConnector(c3, testConnector2)
             c5 == moveNode(c4, "test-node-1", testNode1.position).canvas
         IN  moveNode(c5, "test-node-2", testNode2.position).canvas

Mount ==
    /\ ~mounted
    /\ mounted' = TRUE
    /\ Install(SetUp(Canvas))
    /\ Did("mount", <<>>, <<>>)
    /\ UNCHANGED <<currentMode, mousePosition, gestureVars, pointerDown, now>>

\* the mode buttons: setCurrentMode
SetCurrentMode(mode) ==
    /\ mounted
    /\ mode # currentMode
    /\ currentMode' = mode
    /\ UNCHANGED <<canvasVars, mounted, mousePosition, gestureVars, pointerDown, now>>
    /\ Did("setCurrentMode", <<mode>>, <<>>)

\* Home.handleNodeMouseDown, called by NodeComponent with node.id
HandleNodeMouseDown(nodeId) ==
    /\ mounted
    /\ IF currentMode = "log" \/ connectionCreationState.isCreating
          \/ ~MapHas(nodes, nodeId)
       THEN UNCHANGED <<canvasVars, dragState>>
       ELSE LET node == MapGet(nodes, nodeId)
            IN  /\ Install(selectNode(clearSelection(Canvas), nodeId, FALSE))
                /\ dragState' = [isDragging |-> TRUE, nodeId |-> nodeId,
                                 startMousePos |-> mousePosition,
                                 startNodePos |-> node.position,
                                 wasAlreadySelected |-> node.selected,
                                 hasDraggedNode |-> FALSE]
    /\ Did("handleNodeMouseDown", <<nodeId>>, <<>>)
    /\ pointerDown' = TRUE
    /\ UNCHANGED <<hostVars, endpointDragState, connectionCreationState, now>>

\* Home.handleSkirtMouseDown -> useConnectionCreation.handleSkirtMouseDown
HandleSkirtMouseDown(nodeId) ==
    /\ mounted
    /\ IF currentMode = "log"
       THEN UNCHANGED connectionCreationState
       ELSE connectionCreationState' =
                [isCreating |-> TRUE, startNodeId |-> nodeId,
                 startCanvasPos |-> mousePosition]
    /\ pointerDown' = TRUE
    /\ UNCHANGED <<canvasVars, hostVars, dragState, endpointDragState, now>>
    /\ Did("handleSkirtMouseDown", <<nodeId>>, <<>>)

\* Home.handleEndpointMouseDown -> useEndpointDrag.handleEndpointMouseDown
HandleEndpointMouseDown(connectorId, endpointType) ==
    /\ mounted
    /\ IF currentMode = "log" \/ ~MapHas(connectors, connectorId)
       THEN UNCHANGED endpointDragState
       ELSE LET connector == MapGet(connectors, connectorId)
                connectionPoint == IF endpointType = "start" THEN connector.startPoint
                                   ELSE connector.endPoint
            IN  endpointDragState' =
                    [isDragging |-> TRUE, connectorId |-> connectorId,
                     endpointType |-> endpointType, startMousePos |-> mousePosition,
                     originalConnectionPoint |->
                         Some([side |-> connectionPoint.side,
                               offset |-> connectionPoint.offset])]
    /\ pointerDown' = TRUE
    /\ UNCHANGED <<canvasVars, hostVars, dragState, connectionCreationState, now>>
    /\ Did("handleEndpointMouseDown", <<connectorId, endpointType>>, <<>>)

\* handleMouseMove whose node-drag part does not look at the other two gestures
HandleMouseMoveDuringAnyGesture(position) ==
    /\ mounted
    /\ mousePosition' = position
    /\ IF ~dragState.isDragging \/ dragState.nodeId = Null
       THEN UNCHANGED <<canvasVars, dragState>>
       ELSE LET deltaX == position.x - dragState.startMousePos.x
                deltaY == position.y - dragState.startMousePos.y
                newPosition == Pos(dragState.startNodePos.x + deltaX,
                                   dragState.startNodePos.y + deltaY)
            IN  /\ dragState' = [dragState EXCEPT !.hasDraggedNode = TRUE]
                /\ Install(moveNode(Canvas, dragState.nodeId, newPosition).canvas)
    /\ Did("handleMouseMove", <<position>>, <<>>)
    /\ UNCHANGED <<mounted, currentMode, endpointDragState, connectionCreationState,
                   pointerDown, now>>

\* Home.handleMouseMove
HandleMouseMove(position) ==
    /\ mounted
    /\ mousePosition' = position
    /\ IF ~dragState.isDragging \/ dragState.nodeId = Null
          \/ endpointDragState.isDragging \/ connectionCreationState.isCreating
       THEN UNCHANGED <<canvasVars, dragState>>
       ELSE LET deltaX == position.x - dragState.startMousePos.x
                deltaY == position.y - dragState.startMousePos.y
                hasMovedSignificantly ==
                    Abs(deltaX) > dragThreshold \/ Abs(deltaY) > dragThreshold
                newPosition == Pos(dragState.startNodePos.x + deltaX,
                                   dragState.startNodePos.y + deltaY)
            IN  /\ dragState' =
                       IF hasMovedSignificantly /\ ~dragState.hasDraggedNode
                       THEN [dragState EXCEPT !.hasDraggedNode = TRUE]
                       ELSE dragState
                /\ Install(moveNode(Canvas, dragState.nodeId, newPosition).canvas)
    /\ Did("handleMouseMove", <<position>>, <<>>)
    /\ UNCHANGED <<mounted, currentMode, endpointDragState, connectionCreationState,
                   pointerDown, now>>

\* Home.handleConnectorClick, called by ConnectorComponent with connector.id
HandleConnectorClick(connectorId) ==
    /\ mounted
    /\ IF currentMode = "log"
       THEN UNCHANGED canvasVars
       ELSE Install(selectConnector(clearSelection(Canvas), connectorId, FALSE))
    /\ Did("handleConnectorClick", <<connectorId>>, <<>>)
    /\ UNCHANGED <<hostVars, gestureVars, pointerDown, now>>

\* Home.handleLogEntrySelect, called by LogViewer with the selected entry or null; an
\* entry is its unblind.actions, an option
handleLogEntrySelect(cv, entry) ==
    LET c1 == clearLogHighlights(cv)
    IN  IF entry # None /\ TheValue(entry).actions # None
        THEN applyLogActions(c1, TheValue(TheValue(entry).actions))
        ELSE c1

HandleLogEntrySelect(entry) ==
    /\ mounted
    /\ Install(handleLogEntrySelect(Canvas, entry))
    /\ Did("handleLogEntrySelect", <<entry>>, <<>>)
    /\ UNCHANGED <<hostVars, gestureVars, pointerDown, now>>

\* the node-drag part of Home.handleMouseUp
EndNodeDrag(cv, st) ==
    IF ~st.isDragging THEN [canvas |-> cv, state |-> st, outcome |-> "none"]
    ELSE IF st.wasAlreadySelected /\ ~st.hasDraggedNode /\ st.nodeId # Null
    THEN [canvas |-> deselectNode(cv, st.nodeId), state |-> IdleDragState,
          outcome |-> "deselected"]
    ELSE [canvas |-> cv, state |-> IdleDragState, outcome |-> "committed"]

\* Home.handleMouseUp: the three parts in order; Date.now() reads t
HandleMouseUp(t) ==
    /\ mounted
    /\ LET afterDrag == EndNodeDrag(Canvas, dragState)
           afterEndpoint ==
               IF endpointDragState.isDragging
               THEN handleEndpointDrop(afterDrag.canvas, endpointDragState, mousePosition)
               ELSE [canvas |-> afterDrag.canvas, state |-> endpointDragState,
                     outcome |-> "none"]
           afterCreation ==
               IF connectionCreationState.isCreating
               THEN handleConnectionDrop(afterEndpoint.canvas, connectionCreationState,
                                         mousePosition, t)
               ELSE [canvas |-> afterEndpoint.canvas, state |-> connectionCreationState,
                     outcome |-> "none"]
       IN  /\ Install(afterCreation.canvas)
           /\ dragState' = afterDrag.state
           /\ endpointDragState' = afterEndpoint.state
           /\ connectionCreationState' = afterCreation.state
           /\ now' = IF afterCreation.outcome = "created" THEN t ELSE now
           /\ Did("handleMouseUp", <<>>,
                  [drag |-> afterDrag.outcome, endpoint |-> afterEndpoint.outcome,
                   creation |-> afterCreation.outcome])
    /\ pointerDown' = FALSE
    /\ UNCHANGED hostVars

\* the host after it has mounted, the graph mode button has been pressed and
\* test-node-1 has been clicked: set up, test-node-1 selected, every gesture idle
ClickedTestNode1 ==
    /\ Canvas = selectNode(clearSelection(SetUp(NewCanvas)), "test-node-1", FALSE)
    /\ mounted = TRUE
    /\ currentMode = "graph"
    /\ mousePosition = Pos(110, 120)
    /\ dragState = IdleDragState
    /\ endpointDragState = IdleEndpointDragState
    /\ connectionCreationState = IdleConnectionCreationState
    /\ pointerDown = FALSE
    /\ now = 0

InitPointer ==
    /\ nodes = selectNode(clearSelection(SetUp(NewCanvas)), "test-node-1", FALSE).nodes
    /\ connectors = SetUp(NewCanvas).connectors
    /\ selection = [selectedNodes |-> {"test-node-1"}, selectedConnectors |-> {}]
    /\ history = SetUp(NewCanvas).history
    /\ historyIndex = SetUp(NewCanvas).historyIndex
    /\ settings = NewCanvas.settings
    /\ logHighlights = NewCanvas.logHighlights
    /\ logAnnotations = NewCanvas.logAnnotations
    /\ ClickedTestNode1
    /\ ops = 0
    /\ last = [op |-> "new", arg |-> <<>>, ret |-> <<>>, evicted |-> FALSE]

----------------------------------------------------------------------------
(* Calls of the canvas's public methods by any holder of the canvas *)

CanvasCall(op, arg, result) ==
    /\ Install(result.canvas)
    /\ Did(op, arg, result.ret)
    /\ UNCHANGED <<hostVars, gestureVars, pointerDown>>

AddNode(id, position) ==
    /\ CanvasCall("addNode", <<id, position>>,
                  Returned(addNode(Canvas, DiagramNode(id, position, defaultNodeSize)), <<>>))
    /\ UNCHANGED now

RemoveNode(nodeId) ==
    /\ CanvasCall("removeNode", <<nodeId>>, removeNode(Canvas, nodeId))
    /\ UNCHANGED now

MoveNode(nodeId, newPosition) ==
    /\ CanvasCall("moveNode", <<nodeId, newPosition>>, moveNode(Canvas, nodeId, newPosition))
    /\ UNCHANGED now

UpdateNodeId(oldId, newId) ==
    /\ CanvasCall("updateNodeId", <<oldId, newId>>, updateNodeId(Canvas, oldId, newId))
    /\ UNCHANGED now

\* createConnector(startNodeId, endNodeId) with the sides left out; Date.now() reads t
CreateConnector(startNodeId, endNodeId, t) ==
    /\ LET made == createConnector(Canvas, startNodeId, endNodeId, None, None, t)
       IN  /\ CanvasCall("createConnector", <<startNodeId, endNodeId>>, made)
           /\ now' = IF made.ret # Null THEN t ELSE now

RemoveConnector(connectorId) ==
    /\ CanvasCall("removeConnector", <<connectorId>>, removeConnector(Canvas, connectorId))
    /\ UNCHANGED now

UpdateConnectorId(oldId, newId) ==
    /\ CanvasCall("updateConnectorId", <<oldId, newId>>,
                  updateConnectorId(Canvas, oldId, newId))
    /\ UNCHANGED now

SelectNode(nodeId, multiSelect) ==
    /\ CanvasCall("selectNode", <<nodeId, multiSelect>>,
                  Returned(selectNode(Canvas, nodeId, multiSelect), <<>>))
    /\ UNCHANGED now

SelectConnector(connectorId, multiSelect) ==
    /\ CanvasCall("selectConnector", <<connectorId, multiSelect>>,
                  Returned(selectConnector(Canvas, connectorId, multiSelect), <<>>))
    /\ UNCHANGED now

ApplyLogActions(actions) ==
    /\ CanvasCall("applyLogActions", <<actions>>,
                  Returned(applyLogActions(Canvas, actions), <<>>))
    /\ UNCHANGED now

\* a caller of an accessor writes a field of something it reached through the result
WriteThrough(accessor, target, field, value) ==
    /\ target \in Reached(Canvas, accessor)
    /\ CanvasCall("writeThrough", <<accessor, target.path, field>>,
                  Returned(WriteField(Canvas, target, field, value), <<>>))
    /\ UNCHANGED now

FromJSON(data) ==
    /\ CanvasCall("fromJSON", <<data>>, Returned(fromJSON(Canvas, data), <<>>))
    /\ UNCHANGED now

\* updateSettings with the grid's snapToGrid given
UpdateSettings(snap) ==
    /\ CanvasCall("updateSettings", <<snap>>,
                  Returned(updateSettings(Canvas, [snapToGrid |-> snap]), <<>>))
    /\ UNCHANGED now

DeselectNode(nodeId) ==
    /\ CanvasCall("deselectNode", <<nodeId>>, Returned(deselectNode(Canvas, nodeId), <<>>))
    /\ UNCHANGED now

\* useEndpointDrag.handleEndpointDrop on the canvas, for a drag of the endpoint of a
\* connector that ends at the pointer position
EndpointDrop(connectorId, endpointType, mouse) ==
    /\ LET dropped == handleEndpointDrop(Canvas,
                          [IdleEndpointDragState EXCEPT !.isDragging = TRUE,
                                                        !.connectorId = connectorId,
                                                        !.endpointType = endpointType],
                          mouse)
       IN  CanvasCall("handleEndpointDrop", <<connectorId, endpointType, mouse>>,
                      Returned(dropped.canvas, dropped.outcome))
    /\ UNCHANGED now

\* a write to the position of a node object that undo() or redo() has just installed
MutateInstalled(nodeId, position) ==
    /\ last.op \in {"undo", "redo"} /\ last.ret = TRUE
    /\ MapHas(nodes, nodeId)
    /\ CanvasCall("mutateInstalled", <<nodeId, position>>,
                  Returned(mutateInstalled(Canvas, nodeId, position), <<>>))
    /\ UNCHANGED now

\* a call of ConnectionUtils.getClosestSide
GetClosestSide(fromPosition, toNodePosition, toNodeSize) ==
    /\ CanvasCall("getClosestSide", <<fromPosition, toNodePosition, toNodeSize>>,
                  Returned(Canvas, getClosestSide(fromPosition, toNodePosition, toNodeSize)))
    /\ UNCHANGED now

\* a call of ConnectionUtils.calculateConnectionPoint
CalculateConnectionPoint(nodePosition, nodeSize, side, offset) ==
    /\ CanvasCall("calculateConnectionPoint", <<nodePosition, nodeSize, side, offset>>,
                  Returned(Canvas, calculateConnectionPoint(nodePosition, nodeSize, side,
                                                            offset)))
    /\ UNCHANGED now

\* the quadrant mapping of a hook applied to the point calculateConnectionPoint has just
\* returned, relative to the node it was calculated for
QuadrantMapping ==
    /\ last.op = "calculateConnectionPoint"
    /\ LET node == DiagramNode("test-node-1", last.arg[1], last.arg[2])
       IN  CanvasCall("quadrantMapping", <<node, last.ret>>,
                      Returned(Canvas, quadrantMapping(node, last.ret)))
    /\ UNCHANGED now

Undo ==
    /\ CanvasCall("undo", <<>>, undo(Canvas))
    /\ UNCHANGED now

Redo ==
    /\ CanvasCall("redo", <<>>, redo(Canvas))
    /\ UNCHANGED now

----------------------------------------------------------------------------
(* Specifications *)

\* the id fields the host's components pass to the handlers
NodeIdFields == {nodes[i].v.id : i \in DOMAIN nodes}

ConnectorIdFields == {connectors[i].v.id : i \in DOMAIN connectors}

\* the host with its gestures, and the canvas calls that undo, redo and remove
Next ==
    \/ Mount
    \/ \E mode \in {"graph", "log"} : SetCurrentMode(mode)
    \/ \E position \in MousePositions : HandleMouseMove(position)
    \/ \E nodeId \in NodeIdFields : HandleNodeMouseDown(nodeId)
    \/ \E nodeId \in NodeIdFields : HandleSkirtMouseDown(nodeId)
    \/ \E connectorId \in ConnectorIdFields, endpointType \in {"start", "end"} :
           HandleEndpointMouseDown(connectorId, endpointType)
    \/ \E t \in now .. MaxClock : HandleMouseUp(t)
    \/ \E id \in NodeIds : AddNode(id, AddPosition)
    \/ \E nodeId \in MapKeys(nodes) : RemoveNode(nodeId)
    \/ \E connectorId \in MapKeys(connectors) : RemoveConnector(connectorId)
    \/ Undo
    \/ Redo

Spec == Init /\ [][Next]_vars

\* the canvas alone: every public method, with present and missing ids
NextCanvas ==
    \/ \E id \in NodeIds : AddNode(id, AddPosition)
    \/ \E nodeId \in NodeIds : RemoveNode(nodeId)
    \/ \E position \in MovePositions : MoveNode("test-node-1", position)
    \/ \E oldId \in NodeIds, newId \in NewNodeIds : UpdateNodeId(oldId, newId)
    \/ \E startNodeId, endNodeId \in NodeIds, t \in now .. MaxClock :
           /\ startNodeId # endNodeId
           /\ CreateConnector(startNodeId, endNodeId, t)
    \/ \E connectorId \in MapKeys(connectors) \cup {"test-connector-1"} :
           RemoveConnector(connectorId)
    \/ \E oldId \in MapKeys(connectors), newId \in NewConnectorIds :
           UpdateConnectorId(oldId, newId)
    \/ SelectNode("test-node-1", FALSE)
    \/ \E connectorId \in MapKeys(connectors) : SelectConnector(connectorId, TRUE)
    \/ Undo
    \/ Redo

SpecCanvas == Init /\ [][NextCanvas]_vars

\* the canvas with log highlighting: nodes and connectors are made, log actions applied
\* and ids renamed
NextLog ==
    \/ \E id \in NodeIds : AddNode(id, AddPosition)
    \/ CreateConnector("test-node-1", "test-node-2", now)
    \/ \E actions \in LogActionLists : ApplyLogActions(actions)
    \/ \E oldId \in NodeIds, newId \in NewNodeIds : UpdateNodeId(oldId, newId)
    \/ \E oldId \in MapKeys(connectors), newId \in NewConnectorIds :
           UpdateConnectorId(oldId, newId)
    \/ \E nodeId \in NodeIds : SelectNode(nodeId, TRUE)
    \/ \E connectorId \in MapKeys(connectors) : SelectConnector(connectorId, TRUE)

SpecLog == Init /\ [][NextLog]_vars

\* the host's pointer handlers with pointer-down and pointer-up alternating, from the
\* state after a click on test-node-1, and the canvas calls any holder of the canvas may
\* make between two pointer events
NextPointer ==
    \/ \E position \in PointerPositions : HandleMouseMove(position)
    \/ \E nodeId \in NodeIdFields : ~pointerDown /\ HandleNodeMouseDown(nodeId)
    \/ \E nodeId \in NodeIdFields : ~pointerDown /\ HandleSkirtMouseDown(nodeId)
    \/ \E connectorId \in ConnectorIdFields, endpointType \in {"start", "end"} :
           ~pointerDown /\ HandleEndpointMouseDown(connectorId, endpointType)
    \/ pointerDown /\ HandleMouseUp(now)
    \/ \E nodeId \in MapKeys(nodes) : RemoveNode(nodeId)
    \/ \E connectorId \in MapKeys(connectors) : RemoveConnector(connectorId)
    \/ Undo

SpecPointer == InitPointer /\ [][NextPointer]_vars

\* the host's pointer handlers and its mode buttons, from the state after a click on
\* test-node-1; a mode button can be pressed while a gesture is under way (by keyboard,
\* or after the pointer was released outside the canvas, where no mouse-up reaches Home)
NextModes ==
    \/ \E mode \in {"graph", "log"} : SetCurrentMode(mode)
    \/ \E position \in PointerPositions : HandleMouseMove(position)
    \/ \E nodeId \in NodeIdFields : ~pointerDown /\ HandleNodeMouseDown(nodeId)
    \/ \E nodeId \in NodeIdFields : ~pointerDown /\ HandleSkirtMouseDown(nodeId)
    \/ \E connectorId \in ConnectorIdFields, endpointType \in {"start", "end"} :
           ~pointerDown /\ HandleEndpointMouseDown(connectorId, endpointType)
    \/ \E connectorId \in ConnectorIdFields : ~pointerDown /\ HandleConnectorClick(connectorId)
    \/ pointerDown /\ HandleMouseUp(now)

SpecModes == InitPointer /\ [][NextModes]_vars

\* connection points are calculated and mapped back to a side and an offset
NextMidpoints ==
    \/ \E nodePosition \in MappedNodePositions, nodeSize \in MappedNodeSizes,
          side \in Sides, offset \in MappedOffsets :
           CalculateConnectionPoint(nodePosition, nodeSize, side, offset)
    \/ QuadrantMapping

SpecMidpoints == Init /\ [][NextMidpoints]_vars

\* the history under the operations on the live graph: moves, renames, selections, an
\* endpoint reattach, undo and redo, and writes to the objects undo and redo install
NextHistory ==
    \/ \E id \in NodeIds : AddNode(id, AddPosition)
    \/ CreateConnector("test-node-1", "test-node-2", now)
    \/ \E position \in MovePositions : MoveNode("test-node-1", position)
    \/ UpdateNodeId("test-node-1", "node-3")
    \/ \E oldId \in MapKeys(connectors) : UpdateConnectorId(oldId, "test-connector-1")
    \/ SelectNode("test-node-1", FALSE)
    \/ DeselectNode("test-node-1")
    \/ \E connectorId \in MapKeys(connectors) :
           EndpointDrop(connectorId, "start", Pos(110, 120))
    \/ \E nodeId \in MapKeys(nodes) : RemoveNode(nodeId)
    \/ \E connectorId \in MapKeys(connectors) : RemoveConnector(connectorId)
    \/ \E data \in Exports : FromJSON(data)
    \/ Undo
    \/ Redo
    \/ \E nodeId \in MapKeys(nodes) : MutateInstalled(nodeId, OffGridPosition)

SpecHistory == Init /\ [][NextHistory]_vars

\* the Log Explorer: the host mounts and log entries are selected and deselected
NextLogExplorer ==
    \/ Mount
    \/ \E mode \in {"graph", "log"} : SetCurrentMode(mode)
    \/ \E entry \in LogEntries : HandleLogEntrySelect(entry)

SpecLogExplorer == Init /\ [][NextLogExplorer]_vars

\* the endpoint and connection-creation gestures of the host on a canvas whose holder
\* adds a node between the grid's lines and sets the grid's snapping
NextDrop ==
    \/ \E position \in PointerPositions : HandleMouseMove(position)
    \/ \E nodeId \in NodeIdFields : ~pointerDown /\ HandleSkirtMouseDown(nodeId)
    \/ \E connectorId \in ConnectorIdFields, endpointType \in {"start", "end"} :
           ~pointerDown /\ HandleEndpointMouseDown(connectorId, endpointType)
    \/ pointerDown /\ HandleMouseUp(now)
    \/ AddNode("node-3", OffGridPosition)
    \/ \E snap \in BOOLEAN : UpdateSettings(snap)

SpecDrop == InitPointer /\ [][NextDrop]_vars

\* a renderer that reads the canvas through its accessors and writes to what it got
NextAccessors ==
    \/ \E id \in NodeIds : AddNode(id, AddPosition)
    \/ CreateConnector("test-node-1", "test-node-2", now)
    \/ \E actions \in LogActionLists : ApplyLogActions(actions)
    \/ \E position \in MovePositions : MoveNode("test-node-1", position)
    \/ \E w \in Writes : \E target \in Reached(Canvas, w.accessor) :
           WriteThrough(w.accessor, target, w.field, w.value)

SpecAccessors == Init /\ [][NextAccessors]_vars

\* export and import: the canvas is built, undone and redone, and loaded from its own
\* export or from another canvas's
NextJSON ==
    \/ \E id \in NodeIds : AddNode(id, AddPosition)
    \/ CreateConnector("test-node-1", "test-node-2", now)
    \/ SelectNode("test-node-1", FALSE)
    \/ Undo
    \/ Redo
    \/ \E data \in Exports \cup {toJSON(Canvas)} : FromJSON(data)

SpecJSON == Init /\ [][NextJSON]_vars

\* the sides: nodes are placed, connected without explicit sides, and getClosestSide is
\* asked directly
NextSides ==
    \/ \E id \in NodeIds, position \in NodePositions : AddNode(id, position)
    \/ \E startNodeId, endNodeId \in NodeIds :
           startNodeId # endNodeId /\ CreateConnector(startNodeId, endNodeId, now)
    \/ \E fromPosition \in ReferencePoints, toNodePosition \in ReferenceNodePositions :
           GetClosestSide(fromPosition, toNodePosition, defaultNodeSize)

SpecSides == Init /\ [][NextSides]_vars

----------------------------------------------------------------------------
(* Properties *)

EndpointNodeIds(m) ==
    {m[i].v.startPoint.nodeId : i \in DOMAIN m} \cup {m[i].v.endPoint.nodeId : i \in DOMAIN m}

\* the nodes, in map order, whose padded bounds contain the position
NodesUnder(m, position) == {m[i].k : i \in {j \in DOMAIN m : InSkirt(m[j].v, position)}}

OnlyEndpointDrag ==
    /\ endpointDragState.isDragging
    /\ ~dragState.isDragging
    /\ ~connectionCreationState.isCreating

OnlyConnectionCreation ==
    /\ connectionCreationState.isCreating
    /\ ~dragState.isDragging
    /\ ~endpointDragState.isDragging

\* C1: in every reachable state of the canvas, with connectors made by createConnector
\* alone, both endpoints of every connector name a node that is in the node map.
C1_EndpointsReferenceNodes == EndpointNodeIds(connectors) \subseteq MapKeys(nodes)

\* the history after one saveToHistory of the new live graph
PushedOne ==
    LET full == Append(SubSeq(history, 1, historyIndex + 1), Snapshot(Canvas'))
    IN  /\ history' = IF Len(full) > maxHistorySize THEN Tail(full) ELSE full
        /\ historyIndex' = Len(history') - 1

\* C2: after removeNode(id) returns true no connector references id, every connector
\* that was attached to id is gone, every other connector is still there, id is not in
\* the selection set and one snapshot has been pushed.
C2_RemoveNodeCascades ==
    [][(last'.op = "removeNode" /\ last'.ret = TRUE) =>
        LET id == last'.arg[1]
        IN  /\ id \notin EndpointNodeIds(connectors')
            /\ \A i \in DOMAIN connectors :
                   IF isConnectedToNode(connectors[i].v, id)
                   THEN ~MapHas(connectors', connectors[i].k)
                   ELSE /\ MapHas(connectors', connectors[i].k)
                        /\ MapGet(connectors', connectors[i].k) = connectors[i].v
            /\ id \notin selection'.selectedNodes
            /\ PushedOne]_vars

\* C3: when an endpoint drag ends with the pointer outside the padded bounds of every
\* node, the dragged connector is not in the canvas afterwards.
C3_EndpointMissDeletes ==
    [][(last'.op = "handleMouseUp" /\ endpointDragState.isDragging
            /\ NodesUnder(nodes, mousePosition) = {}) =>
        \A i \in DOMAIN connectors' :
            /\ connectors'[i].k # endpointDragState.connectorId
            /\ connectors'[i].v.id # endpointDragState.connectorId]_vars

\* an endpoint drag on a connector of the canvas has just ended over empty canvas
C3_Witness ==
    /\ last.op = "handleMouseUp"
    /\ last.ret.endpoint = "deleted"
    /\ NodesUnder(nodes, mousePosition) = {}
    /\ Len(nodes) > 0

\* the positions in the node map of the gesture's source: the node the recorded id names
SourceNodes ==
    {i \in DOMAIN nodes : nodes[i].k = connectionCreationState.startNodeId}

\* the positions in the node map of the nodes whose padded bounds contain the pointer
Hits == {i \in DOMAIN nodes : InSkirt(nodes[i].v, mousePosition)}

\* (nodeId, side, offset) of a connection point
Attachment(point) == [nodeId |-> point.nodeId, side |-> point.side, offset |-> point.offset]

\* C4: when a connection-creation gesture started on node S at p0 ends at p1 inside the
\* padded bounds of a node T other than S (and of no other node), exactly one connector is
\* added, with start point (S, quadrant mapping of p0 on S) and end point (T, quadrant
\* mapping of p1 on T).
C4_GestureAddsOneConnector ==
    [][(/\ last'.op = "handleMouseUp"
        /\ OnlyConnectionCreation
        /\ SourceNodes # {}
        /\ Cardinality(Hits) = 1
        /\ Hits \cap SourceNodes = {}) =>
        LET S == nodes[CHOOSE i \in SourceNodes : TRUE]
            T == nodes[CHOOSE i \in Hits : TRUE]
            from == quadrantMapping(S.v, connectionCreationState.startCanvasPos)
            to == quadrantMapping(T.v, mousePosition)
            added == {i \in DOMAIN connectors' : ~MapHas(connectors, connectors'[i].k)}
        IN  /\ Len(connectors') = Len(connectors) + 1
            /\ MapKeys(connectors) \subseteq MapKeys(connectors')
            /\ \A i \in added :
                   /\ Attachment(connectors'[i].v.startPoint) =
                          [nodeId |-> S.k, side |-> from.side, offset |-> from.offset]
                   /\ Attachment(connectors'[i].v.endPoint) =
                          [nodeId |-> T.k, side |-> to.side, offset |-> to.offset]]_vars

\* the source of the gesture by what the pressed component passed: its key or its id field
PressedNodes ==
    {i \in DOMAIN nodes : \/ nodes[i].k = connectionCreationState.startNodeId
                          \/ nodes[i].v.id = connectionCreationState.startNodeId}

\* C5 as stated: when a connection-creation gesture ends with the pointer inside the
\* padded bounds of no node, or inside those of the source node, the node map, the
\* connector map and the history are left unchanged.
C5_NoTargetChangesNothing_AsStated ==
    [][(/\ last'.op = "handleMouseUp"
        /\ OnlyConnectionCreation
        /\ (Hits = {} \/ Hits \cap PressedNodes # {})) =>
        UNCHANGED <<nodes, connectors, history, historyIndex>>]_vars

\* C5 amended: when a connection-creation gesture ends with the pointer inside the padded
\* bounds of no node, or with the source node being the first node in map order whose
\* padded bounds contain the pointer, the node map, the connector map and the history are
\* left unchanged and the gesture is over.
C5_NoTargetChangesNothing ==
    [][(/\ last'.op = "handleMouseUp"
        /\ OnlyConnectionCreation
        /\ \/ Hits = {}
           \/ nodes[CHOOSE i \in Hits : \A j \in Hits : i <= j].v.id =
                  connectionCreationState.startNodeId) =>
        /\ UNCHANGED <<nodes, connectors, history, historyIndex>>
        /\ ~connectionCreationState'.isCreating]_vars

\* a gesture has just ended on its own source, with connectors and snapshots in the canvas
C5_Witness ==
    /\ last.op = "handleMouseUp"
    /\ last.ret.creation = "noTarget"
    /\ last.ret.drag = "none"
    /\ last.ret.endpoint = "none"
    /\ Hits # {}
    /\ Len(connectors) > 0
    /\ historyIndex >= 0

\* C6: when an endpoint drag ends with the pointer inside the padded bounds of a node N
\* (and of no other node), the dragged endpoint becomes (N, quadrant mapping of the drop
\* point on N), the other endpoint's (nodeId, side, offset) is unchanged and the connector
\* is still in the canvas under the same id.
C6_EndpointDropReattaches ==
    [][(/\ last'.op = "handleMouseUp"
        /\ OnlyEndpointDrag
        /\ MapHas(connectors, endpointDragState.connectorId)
        /\ Cardinality(Hits) = 1) =>
        LET id == endpointDragState.connectorId
            N == nodes[CHOOSE i \in Hits : TRUE]
            to == quadrantMapping(N.v, mousePosition)
            before == MapGet(connectors, id)
            after == MapGet(connectors', id)
            dropped == [nodeId |-> N.k, side |-> to.side, offset |-> to.offset]
        IN  /\ MapHas(connectors', id)
            /\ after.id = before.id
            /\ to.offset.num >= 0 /\ to.offset.num <= to.offset.den
            /\ IF endpointDragState.endpointType = "start"
               THEN /\ Attachment(after.startPoint) = dropped
                    /\ Attachment(after.endPoint) = Attachment(before.endPoint)
               ELSE /\ Attachment(after.endPoint) = dropped
                    /\ Attachment(after.startPoint) = Attachment(before.startPoint)]_vars

\* C7: undo() when canUndo() is false and redo() when canRedo() is false return false and
\* leave nodes, connectors, selection, history list and history index unchanged.
C7_RefusedUndoRedoChangeNothing ==
    [][(\/ last'.op = "undo" /\ ~canUndo(Canvas)
        \/ last'.op = "redo" /\ ~canRedo(Canvas)) =>
        /\ last'.ret = FALSE
        /\ UNCHANGED <<nodes, connectors, selection, history, historyIndex>>]_vars

\* undo has just been refused on a canvas with a node selected and a snapshot in the list
C7_Witness ==
    /\ last.op = "undo"
    /\ last.ret = FALSE
    /\ historyIndex = 0
    /\ selection.selectedNodes # {}
    /\ Len(nodes) > 0

\* what getAllNodes() shows of the nodes of a map: id, position and size of each
NodesSeen(m) ==
    {[id |-> m[i].v.id, position |-> m[i].v.position, size |-> m[i].v.size] : i \in DOMAIN m}

\* what getAllConnectors() shows of the connectors of a map: id and both attachments
ConnectorsSeen(m) ==
    {[id |-> m[i].v.id, startPoint |-> Attachment(m[i].v.startPoint),
      endPoint |-> Attachment(m[i].v.endPoint)] : i \in DOMAIN m}

\* C8: after undo() or redo() returns true the live graph equals the snapshot at the
\* adjusted index (same node ids, positions and sizes, same connector ids and
\* attachments) and getSelectedNodes() and getSelectedConnectors() are empty.
C8_UndoRedoRestoreSnapshot ==
    [][(last'.op \in {"undo", "redo"} /\ last'.ret = TRUE) =>
        LET state == history'[historyIndex' + 1]
        IN  /\ NodesSeen(nodes') = NodesSeen(state.nodes)
            /\ ConnectorsSeen(connectors') = ConnectorsSeen(state.connectors)
            /\ getSelectedNodes(Canvas') = {}
            /\ getSelectedConnectors(Canvas') = {}]_vars

\* the calls that have just pushed one snapshot
Pushed ==
    \/ last'.op = "addNode"
    \/ last'.op \in {"removeNode", "updateNodeId", "removeConnector", "updateConnectorId"}
           /\ last'.ret = TRUE
    \/ last'.op = "createConnector" /\ last'.ret # Null

\* C9: the history holds at most maxHistorySize snapshots and -1 <= historyIndex <=
\* length - 1 in every state; a push onto a full list drops the oldest snapshot, and after
\* every push the index is at the snapshot just pushed and canRedo() is false.
C9_HistoryBounded ==
    /\ [](/\ Len(history) <= maxHistorySize
          /\ -1 <= historyIndex
          /\ historyIndex <= Len(history) - 1)
    /\ [][Pushed =>
            /\ PushedOne
            /\ history'[historyIndex' + 1] = Snapshot(Canvas')
            /\ ~canRedo(Canvas')]_vars

\* a push onto a full history has just dropped the oldest snapshot
C9_Witness ==
    /\ last.evicted
    /\ last.op \in {"addNode", "createConnector", "removeNode"}
    /\ Len(history) = maxHistorySize
    /\ historyIndex = maxHistorySize - 1

\* the live graph by map key: node ids with positions, connector ids with attachments
GraphByKey(nodeMap, connectorMap) ==
    [nodes |-> {[id |-> nodeMap[i].k, position |-> nodeMap[i].v.position] :
                   i \in DOMAIN nodeMap},
     connectors |-> {[id |-> connectorMap[i].k,
                      startPoint |-> Attachment(connectorMap[i].v.startPoint),
                      endPoint |-> Attachment(connectorMap[i].v.endPoint)] :
                        i \in DOMAIN connectorMap}]

NoGesture ==
    /\ ~dragState.isDragging
    /\ ~endpointDragState.isDragging
    /\ ~connectionCreationState.isCreating

\* C10: whenever no gesture is in progress and there is a snapshot, the snapshot at the
\* current index equals the live graph: same node ids and positions, same connector ids
\* and attachments.
C10_SnapshotEqualsLiveGraph ==
    (NoGesture /\ historyIndex >= 0) =>
        GraphByKey(nodes, connectors) =
            GraphByKey(history[historyIndex + 1].nodes, history[historyIndex + 1].connectors)

\* C11: updateNodeId(oldId, newId) when a node newId already exists, and
\* updateConnectorId(oldId, newId) when a connector newId already exists, return false and
\* change nothing: nodes (keys and id fields), connectors (endpoints), the selection and
\* the history are as before.
C11_RenameConflictChangesNothing ==
    [][(\/ last'.op = "updateNodeId" /\ MapHas(nodes, last'.arg[2])
        \/ last'.op = "updateConnectorId" /\ MapHas(connectors, last'.arg[2])) =>
        /\ last'.ret = FALSE
        /\ UNCHANGED <<nodes, connectors, selection, history, historyIndex>>]_vars

\* a rename of a node that a connector is attached to has just been refused because
\* another node is stored under the new id
C11_Witness ==
    /\ last.op = "updateNodeId"
    /\ last.ret = FALSE
    /\ last.arg[1] # last.arg[2]
    /\ MapHas(nodes, last.arg[1])
    /\ MapHas(nodes, last.arg[2])
    /\ last.arg[1] \in EndpointNodeIds(connectors)

\* C12: after updateNodeId(oldId, newId) succeeds (oldId exists, newId does not), the node
\* is stored under newId with id field newId, no node is stored under oldId, every
\* connector endpoint that referenced oldId references newId and no endpoint references
\* oldId, selection membership of oldId has moved to newId, and exactly one history
\* snapshot has been pushed.
C12_UpdateNodeIdRenames ==
    [][(last'.op = "updateNodeId" /\ MapHas(nodes, last'.arg[1])
            /\ ~MapHas(nodes, last'.arg[2])) =>
        LET oldId == last'.arg[1]
            newId == last'.arg[2]
        IN  /\ last'.ret = TRUE
            /\ MapHas(nodes', newId)
            /\ MapGet(nodes', newId).id = newId
            /\ ~MapHas(nodes', oldId)
            /\ Len(connectors') = Len(connectors)
            /\ \A i \in DOMAIN connectors :
                /\ connectors'[i].k = connectors[i].k
                /\ connectors'[i].v.startPoint.nodeId =
                       (IF connectors[i].v.startPoint.nodeId = oldId THEN newId
                        ELSE connectors[i].v.startPoint.nodeId)
                /\ connectors'[i].v.endPoint.nodeId =
                       (IF connectors[i].v.endPoint.nodeId = oldId THEN newId
                        ELSE connectors[i].v.endPoint.nodeId)
            /\ oldId \notin EndpointNodeIds(connectors')
            /\ (newId \in selection'.selectedNodes) = (oldId \in selection.selectedNodes)
            /\ oldId \notin selection'.selectedNodes
            /\ selection'.selectedNodes \ {newId} = selection.selectedNodes \ {oldId}
            /\ PushedOne]_vars

\* a selected node with a connector attached has just been renamed
C12_Witness ==
    /\ last.op = "updateNodeId"
    /\ last.ret = TRUE
    /\ last.arg[2] \in EndpointNodeIds(connectors)
    /\ last.arg[2] \in selection.selectedNodes
    /\ MapHas(nodes, last.arg[2])

\* the entry of an id-keyed map under oldId, if there is one, is under newId afterwards
\* with the same value, and nothing is left under oldId
Migrated(before, after, oldId, newId) ==
    /\ MapHas(before, oldId) =>
           MapHas(after, newId) /\ MapGet(after, newId) = MapGet(before, oldId)
    /\ ~MapHas(after, oldId)

\* C13: an explicit id rename migrates all id-keyed maps: after a successful
\* updateNodeId(oldId, newId) or updateConnectorId(oldId, newId) every entry that was
\* keyed by oldId in the selection sets, in logHighlights and in logAnnotations is keyed
\* by newId and no entry remains under oldId.
C13_RenameMigratesIdKeyedMaps ==
    [][(last'.op \in {"updateNodeId", "updateConnectorId"} /\ last'.ret = TRUE) =>
        LET oldId == last'.arg[1]
            newId == last'.arg[2]
        IN  /\ oldId \in selection.selectedNodes => newId \in selection'.selectedNodes
            /\ oldId \in selection.selectedConnectors =>
                   newId \in selection'.selectedConnectors
            /\ oldId \notin selection'.selectedNodes \cup selection'.selectedConnectors
            /\ Migrated(logHighlights, logHighlights', oldId, newId)
            /\ Migrated(logAnnotations, logAnnotations', oldId, newId)]_vars

\* C14: after updateConnectorId(oldId, newId) succeeds the connector is stored under newId
\* with id field newId, and if logHighlights had an entry for oldId that entry is now
\* under newId with the same style and no entry remains under oldId.
C14_UpdateConnectorIdMigratesHighlights ==
    [][(last'.op = "updateConnectorId" /\ last'.ret = TRUE) =>
        LET oldId == last'.arg[1]
            newId == last'.arg[2]
        IN  /\ MapHas(connectors', newId)
            /\ MapGet(connectors', newId).id = newId
            /\ ~MapHas(connectors', oldId)
            /\ Migrated(logHighlights, logHighlights', oldId, newId)]_vars

\* a highlighted connector has just been renamed
C14_Witness ==
    /\ last.op = "updateConnectorId"
    /\ last.ret = TRUE
    /\ MapHas(connectors, last.arg[2])
    /\ MapHas(logHighlights, last.arg[2])
    /\ MapGet(logHighlights, last.arg[2]).type = "annotate"

\* the operation recorded in next is a call with a node or connector id that is not in
\* the canvas
MissingIdCall(next) ==
    \/ /\ next.op \in {"removeNode", "moveNode", "updateNodeId", "selectNode", "deselectNode"}
       /\ ~MapHas(nodes, next.arg[1])
    \/ /\ next.op \in {"removeConnector", "updateConnectorId", "selectConnector",
                       "deselectConnector"}
       /\ ~MapHas(connectors, next.arg[1])
    \/ /\ next.op = "createConnector"
       /\ ~(MapHas(nodes, next.arg[1]) /\ MapHas(nodes, next.arg[2]))

\* false from the methods that return a boolean, null from createConnector, nothing from
\* the void methods
FalsyResult(next) ==
    IF next.op \in {"removeNode", "moveNode", "updateNodeId", "removeConnector",
                    "updateConnectorId"}
    THEN next.ret = FALSE
    ELSE IF next.op = "createConnector" THEN next.ret = Null
    ELSE next.ret = <<>>

\* C15: every canvas operation invoked with a node or connector id that does not exist
\* (removeNode, moveNode, updateNodeId, removeConnector, updateConnectorId,
\* createConnector with a missing node, selectNode, selectConnector, deselectNode,
\* deselectConnector) returns a falsy or null result or nothing and performs no mutation:
\* nodes, connectors, selection and history are all unchanged.
C15_MissingIdChangesNothing ==
    [][MissingIdCall(last') =>
        /\ FalsyResult(last')
        /\ UNCHANGED <<nodes, connectors, selection, history, historyIndex>>]_vars

\* C16: connector ids are unique among connectors: every successful createConnector
\* call, whatever value the clock returns at that moment, adds a connector whose id
\* differs from the id of every connector already in the canvas, so the connector count
\* grows by exactly one and no existing connector is replaced.
C16_CreateConnectorAddsFreshId ==
    [][(last'.op = "createConnector" /\ last'.ret # Null) =>
        /\ ~MapHas(connectors, last'.ret)
        /\ Len(connectors') = Len(connectors) + 1
        /\ \A i \in DOMAIN connectors :
            /\ connectors'[i].k = connectors[i].k
            /\ Attachment(connectors'[i].v.startPoint) =
                   Attachment(connectors[i].v.startPoint)
            /\ Attachment(connectors'[i].v.endPoint) = Attachment(connectors[i].v.endPoint)]_vars

\* q is a multiple of the grid size and no other multiple is nearer to p
NearestOnGrid(p, q) == q % gridSize = 0 /\ 2 * Abs(q - p) <= gridSize

\* the endpoint, when attached to the node, caches the connection point of the node
CachesPointOf(point, id, node) ==
    point.nodeId = id =>
        point.absolutePosition =
            Some(calculateConnectionPoint(node.position, node.size, point.side, point.offset))

Far(p, q) == Abs(p.x - q.x) > dragThreshold \/ Abs(p.y - q.y) > dragThreshold

\* the press recorded in next started a node drag
StartedNodeDrag(next) ==
    /\ next.op = "handleNodeMouseDown"
    /\ currentMode # "log"
    /\ ~connectionCreationState.isCreating
    /\ MapHas(nodes, next.arg[1])

\* C18: at the end of a node drag the node is deselected if and only if it was already
\* selected before the gesture started and the pointer never moved more than 2 units from
\* its start position during the gesture; in every other case the node stays selected
\* and keeps the position given by the last move (no rollback).  Step by step: the press
\* records whether the node was selected and where the pointer was; at the release, a
\* node that was already selected, with the pointer within 2 units of the press position
\* and no farther move recorded, is deselected, and in every other case the release
\* leaves the node's selection as it is; the release never changes the position.
C18_DragEndDeselectsOnlyAClick ==
    [][/\ StartedNodeDrag(last') =>
           /\ dragState'.isDragging
           /\ dragState'.nodeId = last'.arg[1]
           /\ dragState'.wasAlreadySelected = MapGet(nodes, last'.arg[1]).selected
           /\ dragState'.startMousePos = mousePosition
           /\ MapGet(nodes', last'.arg[1]).selected
       /\ (last'.op = "handleMouseUp" /\ dragState.isDragging
              /\ MapHas(nodes, dragState.nodeId)) =>
           LET nodeId == dragState.nodeId
               before == MapGet(nodes, nodeId)
               after == MapGet(nodes', nodeId)
           IN  /\ MapHas(nodes', nodeId)
               /\ after.position = before.position
               /\ IF /\ dragState.wasAlreadySelected
                     /\ ~dragState.hasDraggedNode
                     /\ ~Far(mousePosition, dragState.startMousePos)
                  THEN /\ ~after.selected
                       /\ nodeId \notin selection'.selectedNodes
                  ELSE /\ after.selected = before.selected
                       /\ (nodeId \in selection'.selectedNodes) =
                              (nodeId \in selection.selectedNodes)]_vars

\* C19: every gesture is resolved by its terminal pointer-up: for each of node drag,
\* endpoint drag and connection creation, if the gesture is active when the pointer-up
\* handler runs, then after the handler its transient state is idle (isDragging /
\* isCreating false and the recorded ids cleared), whatever happened to the graph
\* during the gesture.
C19_PointerUpResolvesGestures ==
    [][last'.op = "handleMouseUp" =>
        /\ dragState.isDragging =>
               ~dragState'.isDragging /\ dragState'.nodeId = Null
        /\ endpointDragState.isDragging =>
               ~endpointDragState'.isDragging /\ endpointDragState'.connectorId = Null
        /\ connectionCreationState.isCreating =>
               /\ ~connectionCreationState'.isCreating
               /\ connectionCreationState'.startNodeId = Null]_vars

\* C20: with pointer-down and pointer-up events strictly alternating, at most one of the
\* three gestures is active: node drag, endpoint drag and connection creation are never
\* true two at a time.
C20_AtMostOneGesture ==
    /\ ~(dragState.isDragging /\ endpointDragState.isDragging)
    /\ ~(dragState.isDragging /\ connectionCreationState.isCreating)
    /\ ~(endpointDragState.isDragging /\ connectionCreationState.isCreating)

\* the ids the actions of a list target
TargetIds(actions) == UNION {{actions[i].id[j] : j \in DOMAIN actions[i].id} : i \in DOMAIN actions}

\* the last action of the list that targets the id
LastTargeting(actions, id) ==
    actions[CHOOSE i \in DOMAIN actions :
                /\ id \in {actions[i].id[j] : j \in DOMAIN actions[i].id}
                /\ \A k \in DOMAIN actions :
                       id \in {actions[k].id[j] : j \in DOMAIN actions[k].id} => k <= i]

\* the colour table of the style keywords
ColorOfStyle(style) ==
    CASE style = Some("success") -> "#22c55e"
      [] style = Some("error") -> "#ef4444"
      [] style = Some("warning") -> "#f59e0b"
      [] style = Some("active") -> "#3b82f6"
      [] style = Some("context") -> "#6b7280"
      [] style = Some("destination") -> "#8b5cf6"
      [] style = Some("path") -> "#06b6d4"
      [] OTHER -> "#3b82f6"

\* C21: after applyLogActions(actions), logHighlights contains exactly the ids targeted
\* by the given actions and nothing from earlier calls; each id maps to a style whose
\* type is the action kind, whose color is the default for the style keyword and whose
\* animation flag is true if and only if the kind is pulse or trace.
C21_HighlightsAreTheTargets ==
    [][last'.op = "applyLogActions" =>
        LET actions == last'.arg[1]
        IN  /\ MapKeys(logHighlights') = TargetIds(actions)
            /\ \A id \in TargetIds(actions) :
                LET action == LastTargeting(actions, id)
                    highlight == MapGet(logHighlights', id)
                IN  /\ highlight.type = action.action
                    /\ highlight.color = ColorOfStyle(action.style)
                    /\ highlight.animation = (action.action \in {"pulse", "trace"})]_vars

\* a list of two actions has just replaced the highlights of an earlier list: one target
\* pulses in the error colour, the other is highlighted in the path colour
C21_Witness ==
    /\ last.op = "applyLogActions"
    /\ MapKeys(logHighlights) = {"test-node-2", connectorIdAt(0)}
    /\ MapGet(logHighlights, "test-node-2").animation
    /\ MapGet(logHighlights, "test-node-2").color = "#ef4444"
    /\ ~MapGet(logHighlights, connectorIdAt(0)).animation
    /\ MapHas(connectors, connectorIdAt(0))

\* the actions of the list, by position, that are annotate actions targeting the id
AnnotateActions(actions, id) ==
    {i \in DOMAIN actions :
        /\ actions[i].action = "annotate"
        /\ id \in {actions[i].id[j] : j \in DOMAIN actions[i].id}}

\* those of them that carry a non-empty annotation text
AnnotateActionsWithText(actions, id) ==
    {i \in AnnotateActions(actions, id) :
        actions[i].annotation # None /\ actions[i].annotation # Some("")}

\* C22 as stated: after applyLogActions(actions), logAnnotations has an entry for an id
\* if and only if some action with action = annotate in the list targets that id, the
\* value being that action's literal annotation text.
C22_AnnotationsAreAnnotateTargets_AsStated ==
    [][last'.op = "applyLogActions" =>
        LET actions == last'.arg[1]
        IN  /\ MapKeys(logAnnotations') =
                   {id \in TargetIds(actions) : AnnotateActions(actions, id) # {}}
            /\ \A id \in MapKeys(logAnnotations') :
                   \E i \in AnnotateActions(actions, id) :
                       actions[i].annotation = Some(MapGet(logAnnotations', id))]_vars

\* C22: after applyLogActions(actions), logAnnotations has an entry for an id if and
\* only if some annotate action with a non-empty annotation text targets that id, the
\* value being the text of the last such action; annotate actions without text and
\* actions of any other kind record no annotation, and annotations of earlier calls are
\* gone.
C22_AnnotationsAreAnnotateTargets ==
    [][last'.op = "applyLogActions" =>
        LET actions == last'.arg[1]
        IN  /\ MapKeys(logAnnotations') =
                   {id \in TargetIds(actions) : AnnotateActionsWithText(actions, id) # {}}
            /\ \A id \in MapKeys(logAnnotations') :
                   LET i == CHOOSE k \in AnnotateActionsWithText(actions, id) :
                                \A m \in AnnotateActionsWithText(actions, id) : m <= k
                   IN  actions[i].annotation = Some(MapGet(logAnnotations', id))]_vars

\* an annotate action without text and a highlight with a text have just been applied
\* over the annotations of an earlier call: no annotation is left
C22_Witness ==
    /\ last.op = "applyLogActions"
    /\ \E i \in DOMAIN last.arg[1] :
           last.arg[1][i].action = "annotate" /\ last.arg[1][i].annotation = None
    /\ logAnnotations = <<>>
    /\ MapKeys(logHighlights) = {"test-node-1", "test-node-2"}

\* C23: read accessors return defensive copies: mutating any value obtained from
\* getAllNodes(), getAllConnectors(), getSettings(), getLogHighlights() or
\* getLogAnnotations() (the collection itself or an element or nested object reached
\* through it) never changes the canvas's internal nodes, connectors, settings,
\* highlight map or annotation map.
C23_AccessorsReturnCopies ==
    [][last'.op = "writeThrough" =>
        UNCHANGED <<nodes, connectors, settings, logHighlights, logAnnotations>>]_vars

\* the ids (map key and id field), positions and endpoints of a graph
IdsPositionsEndpoints(nodeMap, connectorMap) ==
    [nodes |-> {[key |-> nodeMap[i].k, id |-> nodeMap[i].v.id,
                 position |-> nodeMap[i].v.position] : i \in DOMAIN nodeMap},
     connectors |-> {[key |-> connectorMap[i].k, id |-> connectorMap[i].v.id,
                      startPoint |-> Attachment(connectorMap[i].v.startPoint),
                      endPoint |-> Attachment(connectorMap[i].v.endPoint)] :
                        i \in DOMAIN connectorMap}]

\* C24: round trip: for any reachable canvas with N nodes and M connectors (including
\* one reached after undo or redo), fromJSON(toJSON()) yields N nodes and M connectors
\* with the same ids, the same positions and the same connector endpoints (nodeId, side,
\* offset).
C24_JSONRoundTrip ==
    [][(last'.op = "fromJSON" /\ last'.arg[1] = toJSON(Canvas)) =>
        /\ Len(nodes') = Len(nodes)
        /\ Len(connectors') = Len(connectors)
        /\ IdsPositionsEndpoints(nodes', connectors') =
               IdsPositionsEndpoints(nodes, connectors)]_vars

\* a canvas with two nodes and a connector, restored by a redo, has just been loaded
\* from its own export
C24_Witness ==
    /\ last.op = "fromJSON"
    /\ Len(nodes) = 2
    /\ Len(connectors) = 1
    /\ last.arg[1].nodes = toJSON(Canvas).nodes
    /\ \E i \in DOMAIN nodes : nodes[i].v.id # nodes[i].k

\* the entries of exported data as a graph
DataGraph(data) ==
    IdsPositionsEndpoints([i \in DOMAIN data.nodes |->
                              [k |-> data.nodes[i][1], v |-> data.nodes[i][2]]],
                          [i \in DOMAIN data.connectors |->
                              [k |-> data.connectors[i][1], v |-> data.connectors[i][2]]])

\* nothing is selected: the selection sets are empty and no node or connector is
\* flagged selected
NothingSelected(nodeMap, connectorMap, sel) ==
    /\ sel.selectedNodes = {}
    /\ sel.selectedConnectors = {}
    /\ \A i \in DOMAIN nodeMap : ~nodeMap[i].v.selected
    /\ \A i \in DOMAIN connectorMap : ~connectorMap[i].v.selected

OppositeFacing(a, b) == {a, b} \in {{"left", "right"}, {"top", "bottom"}}

\* a step of createConnector(startNodeId, endNodeId), sides left out, between two nodes
\* of the canvas whose centers differ
AutoSidedStep ==
    /\ last'.op = "createConnector"
    /\ MapHas(nodes, last'.arg[1]) /\ MapHas(nodes, last'.arg[2])
    /\ getCenter(MapGet(nodes, last'.arg[1])) # getCenter(MapGet(nodes, last'.arg[2]))

\* C26: createConnector(a, b) without explicit sides, for two existing nodes whose
\* centers differ, yields a connector whose start and end sides are opposite-facing
\* (left and right, or top and bottom); for the start node at (100,100) and the end node
\* at (300,200), both 120x60, the start side is right and the end side is left.
C26_AutoSidesOppositeFacing ==
    [][AutoSidedStep =>
          /\ last'.ret # Null
          /\ MapHas(connectors', last'.ret)
          /\ LET c == MapGet(connectors', last'.ret)
                 a == MapGet(nodes, last'.arg[1])
                 b == MapGet(nodes, last'.arg[2])
             IN  /\ OppositeFacing(c.startPoint.side, c.endPoint.side)
                 /\ (/\ a.position = Pos(100, 100) /\ b.position = Pos(300, 200)
                     /\ a.size = defaultNodeSize /\ b.size = defaultNodeSize)
                        => c.startPoint.side = "right" /\ c.endPoint.side = "left"]_vars

\* the side the source's rule names for the difference (dx, dy); where |dx| = |dy| the
\* rule of the claim names none
SideRule(dx, dy) ==
    IF Abs(dx) > Abs(dy) THEN {IF dx > 0 THEN "left" ELSE "right"}
    ELSE IF Abs(dx) < Abs(dy) THEN {IF dy > 0 THEN "top" ELSE "bottom"}
    ELSE {"left", "right", "top", "bottom"}

Translated(p, v) == Pos(p.x + v.x, p.y + v.y)

\* C27: getClosestSide(from, nodePos, nodeSize) depends only on (dx, dy), from minus the
\* node's center: for |dx| > |dy| it is left if dx > 0 and right otherwise, for
\* |dx| < |dy| it is top if dy > 0 and bottom otherwise; translating the reference point
\* and the node by the same vector never changes the side.
C27_ClosestSideByCenterDifference ==
    [][last'.op = "getClosestSide" =>
          LET fromPosition == last'.arg[1]
              toNodePosition == last'.arg[2]
              toNodeSize == last'.arg[3]
              dx == fromPosition.x - (toNodePosition.x + toNodeSize.width \div 2)
              dy == fromPosition.y - (toNodePosition.y + toNodeSize.height \div 2)
          IN  /\ last'.ret \in SideRule(dx, dy)
              /\ \A v \in Translations :
                     getClosestSide(Translated(fromPosition, v),
                                    Translated(toNodePosition, v), toNodeSize) = last'.ret]_vars

\* getClosestSide was asked about a point right of and a little below the node's center
C27_Witness ==
    /\ last.op = "getClosestSide"
    /\ last.arg[1] = Pos(400, 140) /\ last.arg[2] = Pos(100, 100)
    /\ last.ret = "left"

\* the pointer events that reach the host
PointerEvents ==
    {"handleNodeMouseDown", "handleSkirtMouseDown", "handleEndpointMouseDown",
     "handleConnectorClick", "handleMouseMove", "handleMouseUp"}

\* where each node is, and which connectors there are with the node, side and offset of
\* their two ends
Placement(nodeMap) == [i \in DOMAIN nodeMap |-> <<nodeMap[i].k, nodeMap[i].v.position>>]

Attachments(connectorMap) ==
    [i \in DOMAIN connectorMap |->
        <<connectorMap[i].k, Attachment(connectorMap[i].v.startPoint),
          Attachment(connectorMap[i].v.endPoint)>>]

\* C28: while the current mode is 'log', no pointer event reaching the host (node,
\* skirt or endpoint mouse-down, connector click, mouse-move, mouse-up) changes a node's
\* position, the set of connectors or their endpoints, or the selection, also when the
\* mode was switched to 'log' while a gesture state was not idle.
C28_LogModeLocksComponents ==
    [][(currentMode = "log" /\ last'.op \in PointerEvents) =>
          /\ Placement(nodes') = Placement(nodes)
          /\ Attachments(connectors') = Attachments(connectors)
          /\ selection' = selection]_vars

\* C29: the forced recompute at the end of an endpoint reattach and of a connection
\* creation (moveNode of a node to its own position) is not a move: every node, the
\* target and the source included, is where it was before the drop, for any node position
\* and any grid setting.
C29_RecomputeMovesNoNode ==
    [][(/\ last'.op = "handleMouseUp"
        /\ \/ last'.ret.endpoint = "reattached"
           \/ last'.ret.creation = "created") =>
          Placement(nodes') = Placement(nodes)]_vars

\* a connection point that is not on the node stays as it is, cached position included
KeepsOtherPoint(before, after, nodeId) == before.nodeId # nodeId => after = before

\* C30: moveNode(id, p) changes only the moved node's position and the cached
\* absolutePosition of the endpoints attached to that node: the history and its index
\* (no snapshot is pushed), the selection, every other node, and every connector's
\* (nodeId, side, offset) are unchanged.  (The moved node's updatedAt time stamp is not
\* part of the model.)
C30_MoveNodeFrame ==
    [][last'.op = "moveNode" =>
          LET nodeId == last'.arg[1]
          IN  /\ history' = history /\ historyIndex' = historyIndex
              /\ selection' = selection
              /\ UNCHANGED <<settings, logHighlights, logAnnotations>>
              /\ DOMAIN nodes' = DOMAIN nodes
              /\ \A i \in DOMAIN nodes :
                     /\ nodes'[i].k = nodes[i].k
                     /\ nodes[i].k # nodeId => nodes'[i].v = nodes[i].v
                     /\ nodes[i].k = nodeId =>
                            [nodes'[i].v EXCEPT !.position = nodes[i].v.position] = nodes[i].v
              /\ Attachments(connectors') = Attachments(connectors)
              /\ \A i \in DOMAIN connectors :
                     /\ KeepsOtherPoint(connectors[i].v.startPoint,
                                        connectors'[i].v.startPoint, nodeId)
                     /\ KeepsOtherPoint(connectors[i].v.endPoint,
                                        connectors'[i].v.endPoint, nodeId)
                     /\ [connectors'[i].v EXCEPT !.startPoint = connectors[i].v.startPoint,
                                                 !.endPoint = connectors[i].v.endPoint]
                            = connectors[i].v]_vars

\* the selected test-node-1, with a connector on it, has been moved to another place
C30_Witness ==
    /\ last.op = "moveNode" /\ last.arg[1] = "test-node-1" /\ last.ret = TRUE
    /\ MapHas(nodes, "test-node-1")
    /\ MapGet(nodes, "test-node-1").position = Pos(260, 140)
    /\ selection.selectedNodes = {"test-node-1"}
    /\ Len(history) = 2
    /\ \E i \in DOMAIN connectors : connectors[i].v.startPoint.nodeId = "test-node-1"

\* where a move event at the pointer position puts the node dragged since the press
\* recorded in st: the position at the press plus the pointer's displacement, on the grid
DragTarget(st, position) ==
    snapToGrid(Canvas, Pos(st.startNodePos.x + (position.x - st.startMousePos.x),
                           st.startNodePos.y + (position.y - st.startMousePos.y)))

\* C31: during a node drag each move event calls moveNode with the node's position
\* captured at the gesture's start plus (current pointer - pointer captured at the start):
\* the position after a move depends only on the start position and the current pointer,
\* not on the moves before it, and a repeated move at the same pointer changes nothing.
C31_DragMovesFromStart ==
    [][/\ StartedNodeDrag(last') =>
           /\ dragState'.startNodePos = MapGet(nodes, last'.arg[1]).position
           /\ dragState'.startMousePos = mousePosition
       /\ (/\ last'.op = "handleMouseMove"
           /\ dragState.isDragging /\ dragState.nodeId # Null
           /\ MapHas(nodes, dragState.nodeId)) =>
              /\ MapGet(nodes', dragState.nodeId).position = DragTarget(dragState, last'.arg[1])
              /\ dragState'.startNodePos = dragState.startNodePos
              /\ dragState'.startMousePos = dragState.startMousePos]_vars

\* C32: while an endpoint drag or a connection creation is active, a pointer-move event
\* mutates nothing in the model: no node position, no connector (existence or endpoints),
\* no selection and no history entry changes.
C32_MoveDuringEndpointGestureMutatesNothing ==
    [][(/\ last'.op = "handleMouseMove"
        /\ endpointDragState.isDragging \/ connectionCreationState.isCreating) =>
          /\ nodes' = nodes /\ connectors' = connectors
          /\ selection' = selection
          /\ history' = history /\ historyIndex' = historyIndex
          /\ endpointDragState' = endpointDragState
          /\ connectionCreationState' = connectionCreationState
          /\ mousePosition' = last'.arg[1]]_vars

\* the pointer has been moved over the empty canvas during an endpoint drag
C32_Witness ==
    /\ last.op = "handleMouseMove" /\ last.arg[1] = Pos(500, 400)
    /\ endpointDragState.isDragging
    /\ endpointDragState.startMousePos # mousePosition
    /\ MapHas(connectors, endpointDragState.connectorId)

\* a call of getClosestSide whose reference point lies on a diagonal through the node's
\* center, with the difference dy it saw
TieCall(call) ==
    /\ call.op = "getClosestSide"
    /\ Abs(call.arg[1].x - (call.arg[2].x + call.arg[3].width \div 2))
           = Abs(call.arg[1].y - (call.arg[2].y + call.arg[3].height \div 2))

TieDy(call) == call.arg[1].y - (call.arg[2].y + call.arg[3].height \div 2)

\* C33 as stated: when |dx| = |dy| getClosestSide falls into the horizontal branch and
\* returns left or right.
C33_TieIsHorizontal_AsStated ==
    [][TieCall(last') => last'.ret \in {"left", "right"}]_vars

\* C33: when |dx| = |dy| (the reference point lies on a diagonal through the node's
\* center) getClosestSide falls into the vertical branch: it returns top if dy > 0 and
\* bottom otherwise.
C33_TieIsVertical ==
    [][TieCall(last') => last'.ret = IF TieDy(last') > 0 THEN "top" ELSE "bottom"]_vars

\* getClosestSide was asked about a point on a diagonal, left of and below the center
C33_Witness ==
    /\ TieCall(last)
    /\ last.arg[1] = Pos(150, 140) /\ last.arg[2] = Pos(100, 100)
    /\ last.ret = "top"

\* C34: the quadrant mapping inverts calculateConnectionPoint at the four side midpoints:
\* for every node with positive width and height and every side s, the quadrant mapping
\* (the same in useEndpointDrag and useConnectionCreation) of
\* calculateConnectionPoint(position, size, s, 0.5), relative to the same node, is side s
\* and offset 0.5.
C34_QuadrantMappingInvertsMidpoints ==
    [][(/\ last'.op = "quadrantMapping"
        /\ last.op = "calculateConnectionPoint"
        /\ last.arg[4] = Half) =>
          last'.ret = [side |-> last.arg[3], offset |-> Half]]_vars

\* the midpoint of the left side of the tall node has been mapped back
C34_Witness ==
    /\ last.op = "quadrantMapping"
    /\ last.arg[1].size = [width |-> 60, height |-> 120]
    /\ last.arg[2] = Pos(last.arg[1].position.x, last.arg[1].position.y + 60)
    /\ last.ret = [side |-> "left", offset |-> Half]

\* the snapshots a push keeps are what they were: all of them up to the current one,
\* less the oldest when the list was full
KeptByPush ==
    LET kept == SubSeq(history, 1, historyIndex + 1)
        front == SubSeq(history', 1, Len(history') - 1)
    IN  \/ front = kept
        \/ Len(kept) = maxHistorySize /\ front = Tail(kept)

C36_IdFieldsEqualKeys ==
    /\ \A i \in DOMAIN nodes : nodes[i].v.id = nodes[i].k
    /\ \A i \in DOMAIN connectors : connectors[i].v.id = connectors[i].k

\* C37: selection flags and selection sets agree: in every reachable state (after any
\* sequence of select, deselect, clearSelection, add, remove, rename, undo and redo) a
\* node or connector of the canvas has selected = true if and only if its id, the key it
\* is stored under, is in the corresponding selection set.
C37_FlagsAgreeWithSets ==
    /\ \A i \in DOMAIN nodes :
           nodes[i].v.selected <=> nodes[i].k \in selection.selectedNodes
    /\ \A i \in DOMAIN connectors :
           connectors[i].v.selected <=> connectors[i].k \in selection.selectedConnectors

\* the graph of a canvas by map key: each node's position and size, each connector's
\* two attachments
KeyedGraph(cv) ==
    [nodes |-> {[key |-> cv.nodes[i].k, position |-> cv.nodes[i].v.position,
                 size |-> cv.nodes[i].v.size] : i \in DOMAIN cv.nodes},
     connectors |-> {[key |-> cv.connectors[i].k,
                      startPoint |-> Attachment(cv.connectors[i].v.startPoint),
                      endPoint |-> Attachment(cv.connectors[i].v.endPoint)] :
                        i \in DOMAIN cv.connectors}]

\* the call recorded last has pushed a snapshot
JustPushed ==
    \/ last.op \in {"addNode", "fromJSON"}
    \/ last.op \in {"removeNode", "updateNodeId", "removeConnector", "updateConnectorId"}
           /\ last.ret = TRUE
    \/ last.op = "createConnector" /\ last.ret # Null

\* C38: immediately after a history-pushing operation (addNode, removeNode, addConnector,
\* removeConnector, updateNodeId, updateConnectorId, fromJSON) with canUndo() true, undo()
\* followed by redo() restores the graph as it was before the undo: the same map keys of
\* nodes and connectors, the same node positions and sizes and the same connector
\* endpoints (nodeId, side, offset).
C38_UndoRedoAfterPush ==
    (JustPushed /\ canUndo(Canvas)) =>
        LET undone == undo(Canvas)
            redone == redo(undone.canvas)
        IN  /\ undone.ret = TRUE /\ redone.ret = TRUE
            /\ KeyedGraph(redone.canvas) = KeyedGraph(Canvas)
            /\ MapKeys(redone.canvas.nodes) = MapKeys(nodes)
            /\ MapKeys(redone.canvas.connectors) = MapKeys(connectors)

\* a node with a connector on it has just been renamed, and the rename can be undone to
\* a different graph
C38_Witness ==
    /\ last.op = "updateNodeId" /\ last.ret = TRUE
    /\ canUndo(Canvas)
    /\ Len(connectors) = 1
    /\ KeyedGraph(undo(Canvas).canvas) # KeyedGraph(Canvas)

\* every endpoint of every connector has a cached absolutePosition
AllCached(cv) ==
    \A i \in DOMAIN cv.connectors :
        /\ cv.connectors[i].v.startPoint.absolutePosition # None
        /\ cv.connectors[i].v.endPoint.absolutePosition # None

\* the cached absolutePosition of a point is there and is calculateConnectionPoint of
\* its node's position and size with the point's side and offset
CachedRight(cv, point) ==
    MapHas(cv.nodes, point.nodeId) =>
        LET node == MapGet(cv.nodes, point.nodeId)
        IN  point.absolutePosition =
                Some(calculateConnectionPoint(node.position, node.size, point.side,
                                              point.offset))

\* C39: undo and redo keep the endpoint cache usable: if every connector endpoint had a
\* cached absolutePosition when a snapshot was taken, then after undo() or redo() restores
\* that snapshot every connector endpoint again has an absolutePosition, equal to
\* calculateConnectionPoint of its node's restored position and size with the endpoint's
\* side and offset.  Checked where the snapshot has just been taken: after the push, an
\* undo() and the redo() that restores the snapshot.
C39_RestoreKeepsEndpointCache ==
    (JustPushed /\ canUndo(Canvas) /\ AllCached(Canvas)) =>
        LET restored == redo(undo(Canvas).canvas).canvas
        IN  \A i \in DOMAIN restored.connectors :
                /\ CachedRight(restored, restored.connectors[i].v.startPoint)
                /\ CachedRight(restored, restored.connectors[i].v.endPoint)

\* the overlay maps the actions of an entry produce: those of applyLogActions, and empty
\* maps for null and for an entry without actions
Produced(entry) ==
    IF entry # None /\ TheValue(entry).actions # None
    THEN applyLogActions(NewCanvas, TheValue(TheValue(entry).actions))
    ELSE NewCanvas

\* C40: the overlay reflects only the currently selected log entry: after the host
\* handles a log-entry selection, a deselection (null entry) and an entry without actions
\* included, logHighlights and logAnnotations hold exactly what that entry's actions
\* produce, so both maps are empty when the entry is null or has no actions.
C40_OverlayIsTheSelectedEntry ==
    [][last'.op = "handleLogEntrySelect" =>
          /\ logHighlights' = Produced(last'.arg[1]).logHighlights
          /\ logAnnotations' = Produced(last'.arg[1]).logAnnotations]_vars

====
